---- MODULE Spec2Model ----
(***************************************************************************)
(* Verification model of the smart-dc-mlops scripts:                       *)
(*   - mlflow_deployment/deploy.py        (base64_encode, process_template)*)
(*   - mlflow_deployment/test-deployment.py (the five cluster checks)      *)
(*   - mlflow-samples/train_voltage_model.py (_load_config, health poll)   *)
(*   - localtestazureblob/*.py, test/test_mlflow_artifact.py (exit status) *)
(* Text is modelled as sequences of one-character strings, so that         *)
(* formatting, UTF-8 and base64 are computed, not assumed.                 *)
(***************************************************************************)
EXTENDS Integers, Sequences, FiniteSets, TLC

VARIABLES
    \* base64_encode round trip (deploy.py)
    b64_pc, b64_value, b64_encoded, b64_decoded,
    \* process_template (deploy.py)
    tpl_pc, tpl_pieces, template_file, template_content, config, substitutions, result,
    output_file, output_before, tpl_error,
    \* test-deployment.py main
    ver_pc, argv, results, outcomes, last_response, summary, passed, total, ver_exit,
    queries,
    \* train_voltage_model.py _wait_for_mlflow_server
    poll_pc, server, max_wait, poll_i, requests, warnings, last_answer,
    \* train_voltage_model.py main after the poll
    trainer_pc, trainer_experiment, trainer_run, trainer_logged, main_exit,
    \* train_voltage_model.py _load_config and the settings train_model reads
    cfg_pc, config_file, model_type, trainer_config, cfg_i,
    \* the tracking scripts
    scr, scr_pc, scr_i, tracking, mount_ok, raised_at, scr_exit,
    \* create experiment if absent, over repeated invocations
    exp_pc, exp_script, exp_store, exp_history,
    \* deploy.py main
    dep_pc, dep_env, dep_templates, dep_configs, dep_config, dep_files, dep_k, dep_writes,
    dep_warnings,
    \* training.py run_multiple_experiments
    trn_pc, trn_k, trn_store, trn_runs, trn_results, trn_best,
    \* generate-auth.py create_secret_yaml
    auth_pc, auth_calls, auth_file,
    \* generate-auth.py main
    gen_pc, gen_cluster, gen_log, gen_reply, gen_yaml, gen_out, gen_exit,
    \* train_model (train_voltage_model.py), train_and_save (voltage_training_working.py)
    sel_pc, sel_script, sel_type, sel_has_config, sel_k, sel_tracking, sel_error,
    \* test_mlflow_artifact.py and test_mlflow_artifact_windows.py main
    art_pc, art_script, art_environ, art_mount, art_files, mount_root, art_creds,
    art_uri, art_ops, art_exit,
    \* temporary files staged for log_artifact
    stg_pc, stg_script, stg_i, stg_files, stg_logged, stg_raised

varsB64 == <<b64_pc, b64_value, b64_encoded, b64_decoded>>
varsTpl == <<tpl_pc, tpl_pieces, template_file, template_content, config, substitutions, result,
             output_file, output_before, tpl_error>>
varsVer == <<ver_pc, argv, results, outcomes, last_response, summary, passed, total,
             ver_exit, queries>>
varsPoll == <<poll_pc, server, max_wait, poll_i, requests, warnings, last_answer,
              trainer_pc, trainer_experiment, trainer_run, trainer_logged, main_exit>>
varsCfg == <<cfg_pc, config_file, model_type, trainer_config, cfg_i>>
varsScr == <<scr, scr_pc, scr_i, tracking, mount_ok, raised_at, scr_exit>>
varsExp == <<exp_pc, exp_script, exp_store, exp_history>>
varsDep == <<dep_pc, dep_env, dep_templates, dep_configs, dep_config, dep_files, dep_k,
             dep_writes, dep_warnings>>
varsTrn == <<trn_pc, trn_k, trn_store, trn_runs, trn_results, trn_best>>
varsAuth == <<auth_pc, auth_calls, auth_file>>
varsGen == <<gen_pc, gen_cluster, gen_log, gen_reply, gen_yaml, gen_out, gen_exit>>
varsSel == <<sel_pc, sel_script, sel_type, sel_has_config, sel_k, sel_tracking, sel_error>>
varsArt == <<art_pc, art_script, art_environ, art_mount, art_files, mount_root, art_creds,
             art_uri, art_ops, art_exit>>
varsStg == <<stg_pc, stg_script, stg_i, stg_files, stg_logged, stg_raised>>
vars == <<varsB64, varsTpl, varsVer, varsPoll, varsCfg, varsScr, varsExp, varsDep, varsTrn, varsAuth, varsGen, varsSel, varsArt, varsStg>>

----------------------------------------------------------------------------
(* Bounds of the model *)

\* longest string value handed to base64_encode in SpecB64
MaxStrLen == 3
\* integer values handed to base64_encode range over -MaxInt .. MaxInt
MaxInt == 12
\* number of pieces a template is assembled from in SpecTemplate
MaxPieces == 2
\* most resources a kubectl listing holds in SpecVerify
MaxItems == 2
\* ceilings 0 .. MaxWaitArg are polled in SpecPoll beside the default one
MaxWaitArg == 3
\* how often one script is invoked on the same tracking server
MaxInvocations == 3
\* a test accuracy is one of 0/MaxAccuracy .. MaxAccuracy/MaxAccuracy
MaxAccuracy == 5
\* how many calls of create_secret_yaml are compared
MaxCalls == 2

----------------------------------------------------------------------------
(* Characters and Python's str() *)

\* printable ASCII, code 32 .. 126; the two characters that would need
\* escaping inside a TLA+ string, and the two quote marks, are named
Ascii == <<
    " ", "!", "QUOTE", "#", "$", "%", "&", "APOSTROPHE", "(", ")", "*", "+", ",", "-", ".", "/",
    "0", "1", "2", "3", "4", "5", "6", "7", "8", "9", ":", ";", "<", "=", ">", "?",
    "@", "A", "B", "C", "D", "E", "F", "G", "H", "I", "J", "K", "L", "M", "N", "O",
    "P", "Q", "R", "S", "T", "U", "V", "W", "X", "Y", "Z", "[", "BACKSLASH", "]", "^", "_",
    "BACKTICK", "a", "b", "c", "d", "e", "f", "g", "h", "i", "j", "k", "l", "m", "n", "o",
    "p", "q", "r", "s", "t", "u", "v", "w", "x", "y", "z", "{", "|", "}", "~" >>

\* code point of a character; "e_acute" is U+00E9, the one non-ASCII character
Ord(c) ==
    IF c = "e_acute" THEN 233
    ELSE 31 + (CHOOSE i \in 1..Len(Ascii) : Ascii[i] = c)

Chr(n) == IF n = 233 THEN "e_acute" ELSE Ascii[n - 31]

RECURSIVE NatToStr(_)
NatToStr(n) ==
    IF n < 10 THEN <<Chr(48 + n)>>
    ELSE NatToStr(n \div 10) \o <<Chr(48 + (n % 10))>>

\* str(n) of a Python int
IntToStr(n) == IF n < 0 THEN <<"-">> \o NatToStr(-n) ELSE NatToStr(n)

\* Python values a YAML configuration holds: str, int, None
StrVal(s) == [t |-> "str", s |-> s, n |-> 0]
IntVal(n) == [t |-> "int", s |-> <<>>, n |-> n]
NoneVal == [t |-> "none", s |-> <<>>, n |-> 0]

\* str(v)
PyStr(v) ==
    CASE v.t = "str" -> v.s
      [] v.t = "int" -> IntToStr(v.n)
      [] OTHER -> <<"N", "o", "n", "e">>

\* outcome of a call: a value or a raised exception
Ok(x) == [ok |-> TRUE, val |-> x, err |-> "none"]
Raise(e) == [ok |-> FALSE, val |-> <<>>, err |-> e]

----------------------------------------------------------------------------
(* str.encode() / bytes.decode(): UTF-8 *)

RECURSIVE Utf8Encode(_)
Utf8Encode(s) ==
    IF s = <<>> THEN <<>>
    ELSE LET cp == Ord(Head(s)) IN
         (IF cp < 128 THEN <<cp>>
          ELSE <<192 + (cp \div 64), 128 + (cp % 64)>>) \o Utf8Encode(Tail(s))

\* Ok(text), or UnicodeDecodeError on a malformed sequence
RECURSIVE Utf8Decode(_)
Utf8Decode(bs) ==
    IF bs = <<>> THEN Ok(<<>>)
    ELSE IF bs[1] < 128 THEN
        LET rest == Utf8Decode(Tail(bs)) IN
        IF rest.ok THEN Ok(<<Chr(bs[1])>> \o rest.val) ELSE rest
    ELSE IF bs[1] \in 194..223 /\ Len(bs) >= 2 /\ bs[2] \in 128..191 THEN
        LET rest == Utf8Decode(SubSeq(bs, 3, Len(bs))) IN
        IF rest.ok THEN Ok(<<Chr((bs[1] - 192) * 64 + (bs[2] - 128))>> \o rest.val)
        ELSE rest
    ELSE Raise("UnicodeDecodeError")

----------------------------------------------------------------------------
(* base64.b64encode / base64.b64decode *)

B64Alphabet == <<
    "A", "B", "C", "D", "E", "F", "G", "H", "I", "J", "K", "L", "M", "N", "O", "P",
    "Q", "R", "S", "T", "U", "V", "W", "X", "Y", "Z", "a", "b", "c", "d", "e", "f",
    "g", "h", "i", "j", "k", "l", "m", "n", "o", "p", "q", "r", "s", "t", "u", "v",
    "w", "x", "y", "z", "0", "1", "2", "3", "4", "5", "6", "7", "8", "9", "+", "/" >>

B64Char(i) == B64Alphabet[i + 1]
B64Index(c) == (CHOOSE i \in 1..Len(B64Alphabet) : B64Alphabet[i] = c) - 1
IsB64Char(c) == \E i \in 1..Len(B64Alphabet) : B64Alphabet[i] = c

\* three bytes become four sextets; a last group of one or two bytes is padded
RECURSIVE B64EncodeBytes(_)
B64EncodeBytes(bs) ==
    IF bs = <<>> THEN <<>>
    ELSE IF Len(bs) = 1 THEN
        <<B64Char(bs[1] \div 4), B64Char((bs[1] % 4) * 16), "=", "=">>
    ELSE IF Len(bs) = 2 THEN
        <<B64Char(bs[1] \div 4),
          B64Char((bs[1] % 4) * 16 + (bs[2] \div 16)),
          B64Char((bs[2] % 16) * 4), "=">>
    ELSE
        <<B64Char(bs[1] \div 4),
          B64Char((bs[1] % 4) * 16 + (bs[2] \div 16)),
          B64Char((bs[2] % 16) * 4 + (bs[3] \div 64)),
          B64Char(bs[3] % 64)>> \o B64EncodeBytes(SubSeq(bs, 4, Len(bs)))

\* Ok(bytes), or binascii.Error on text that is no padded base64
RECURSIVE B64DecodeBytes(_)
B64DecodeBytes(cs) ==
    IF cs = <<>> THEN Ok(<<>>)
    ELSE IF Len(cs) < 4 \/ ~IsB64Char(cs[1]) \/ ~IsB64Char(cs[2]) THEN Raise("binascii.Error")
    ELSE LET a == B64Index(cs[1])
             b == B64Index(cs[2])
             b1 == a * 4 + (b \div 16)
         IN
         IF cs[3] = "=" THEN
             IF cs[4] = "=" /\ Len(cs) = 4 THEN Ok(<<b1>>) ELSE Raise("binascii.Error")
         ELSE IF ~IsB64Char(cs[3]) THEN Raise("binascii.Error")
         ELSE LET c == B64Index(cs[3])
                  b2 == (b % 16) * 16 + (c \div 4)
              IN
              IF cs[4] = "=" THEN
                  IF Len(cs) = 4 THEN Ok(<<b1, b2>>) ELSE Raise("binascii.Error")
              ELSE IF ~IsB64Char(cs[4]) THEN Raise("binascii.Error")
              ELSE LET d == B64Index(cs[4])
                       b3 == (c % 4) * 64 + d
                       rest == B64DecodeBytes(SubSeq(cs, 5, Len(cs)))
                   IN
                   IF rest.ok THEN Ok(<<b1, b2, b3>> \o rest.val) ELSE rest

\* base64.b64decode(text).decode(): what a reader of the secret gets back
b64decode_str(cs) ==
    LET bs == B64DecodeBytes(cs) IN
    IF bs.ok THEN Utf8Decode(bs.val) ELSE bs

\* seeded fault in base64_encode: str.encode() keeps only the low seven bits
base64_encode_ascii(value) ==
    LET s == IF value.t = "int" THEN IntToStr(value.n) ELSE value.s IN
    IF value.t \notin {"str", "int"} THEN Raise("AttributeError")
    ELSE Ok(B64EncodeBytes([i \in 1..Len(s) |-> Ord(s[i]) % 128]))

\* deploy.py base64_encode: an int is first converted with str(); anything that
\* then has no .encode() raises AttributeError
base64_encode(value) ==
    LET v == IF value.t = "int" THEN StrVal(IntToStr(value.n)) ELSE value IN
    IF v.t # "str" THEN Raise("AttributeError")
    ELSE Ok(B64EncodeBytes(Utf8Encode(v.s)))

----------------------------------------------------------------------------
(* SpecB64: base64_encode applied to bounded inputs, then decoded *)

RECURSIVE SeqsUpTo(_, _)
SeqsUpTo(S, n) ==
    IF n = 0 THEN {<<>>}
    ELSE LET shorter == SeqsUpTo(S, n - 1) IN
         shorter \cup {Append(s, c) : s \in {x \in shorter : Len(x) = n - 1}, c \in S}

B64Chars == {"a", "$", "=", "e_acute"}

\* 5432 is the PG_PORT of the shipped configurations
B64Inputs ==
    {StrVal(s) : s \in SeqsUpTo(B64Chars, MaxStrLen)}
    \cup {IntVal(n) : n \in (-MaxInt..MaxInt) \cup {5432}}
    \cup {NoneVal}

B64Idle ==
    /\ b64_pc = "idle"
    /\ b64_value = NoneVal
    /\ b64_encoded = Raise("unset")
    /\ b64_decoded = Raise("unset")

B64Init ==
    /\ b64_pc = "start"
    /\ b64_value \in B64Inputs
    /\ b64_encoded = Raise("unset")
    /\ b64_decoded = Raise("unset")

B64Encode ==
    /\ b64_pc = "start"
    /\ b64_encoded' = base64_encode(b64_value)
    /\ b64_pc' = IF b64_encoded'.ok THEN "encoded" ELSE "raised"
    /\ UNCHANGED <<b64_value, b64_decoded>>
    /\ UNCHANGED <<varsTpl, varsVer, varsPoll, varsCfg, varsScr, varsExp, varsDep, varsTrn, varsAuth, varsGen, varsSel, varsArt, varsStg>>

B64Decode ==
    /\ b64_pc = "encoded"
    /\ b64_decoded' = b64decode_str(b64_encoded.val)
    /\ b64_pc' = "decoded"
    /\ UNCHANGED <<b64_value, b64_encoded>>
    /\ UNCHANGED <<varsTpl, varsVer, varsPoll, varsCfg, varsScr, varsExp, varsDep, varsTrn, varsAuth, varsGen, varsSel, varsArt, varsStg>>


----------------------------------------------------------------------------
(* string.Template.substitute, as process_template uses it *)

IsIdStart(c) ==
    \/ c = "_"
    \/ c # "e_acute" /\ (Ord(c) \in 65..90 \/ Ord(c) \in 97..122)

IsIdChar(c) == IsIdStart(c) \/ (c # "e_acute" /\ Ord(c) \in 48..57)

\* length of the longest run of identifier characters at the head of s
RECURSIVE IdRun(_)
IdRun(s) == IF s # <<>> /\ IsIdChar(Head(s)) THEN 1 + IdRun(Tail(s)) ELSE 0

Drop(s, n) == SubSeq(s, n + 1, Len(s))

Cons(piece, rest) == IF rest.ok THEN Ok(piece \o rest.val) ELSE rest

\* seeded fault in substitute: Template.safe_substitute, which leaves what it cannot
\* replace in place
RECURSIVE safe_substitute(_, _)
safe_substitute(s, m) ==
    IF s = <<>> THEN Ok(<<>>)
    ELSE IF Head(s) # "$" THEN Cons(<<Head(s)>>, safe_substitute(Tail(s), m))
    ELSE IF Len(s) >= 2 /\ s[2] = "$" THEN Cons(<<"$">>, safe_substitute(Drop(s, 2), m))
    ELSE IF Len(s) >= 2 /\ IsIdStart(s[2]) THEN
        LET n == IdRun(Tail(s))
            name == SubSeq(s, 2, n + 1)
        IN Cons(IF name \in DOMAIN m THEN PyStr(m[name]) ELSE SubSeq(s, 1, n + 1),
                safe_substitute(Drop(s, n + 1), m))
    ELSE IF /\ Len(s) >= 3 /\ s[2] = "{" /\ IsIdStart(s[3])
            /\ Len(s) >= 3 + IdRun(Drop(s, 2)) /\ s[3 + IdRun(Drop(s, 2))] = "}" THEN
        LET n == IdRun(Drop(s, 2))
            name == SubSeq(s, 3, n + 2)
        IN Cons(IF name \in DOMAIN m THEN PyStr(m[name]) ELSE SubSeq(s, 1, n + 3),
                safe_substitute(Drop(s, n + 3), m))
    ELSE Cons(<<"$">>, safe_substitute(Tail(s), m))

\* Template(s).substitute(m): the delimiter "$" is followed by "$" (escape), by
\* an identifier, or by a braced identifier; any other "$" is a ValueError and
\* an identifier that is no key of m a KeyError. The leftmost failure raises.
RECURSIVE substitute(_, _)
substitute(s, m) ==
    IF s = <<>> THEN Ok(<<>>)
    ELSE IF Head(s) # "$" THEN Cons(<<Head(s)>>, substitute(Tail(s), m))
    ELSE IF Len(s) >= 2 /\ s[2] = "$" THEN Cons(<<"$">>, substitute(Drop(s, 2), m))
    ELSE IF Len(s) >= 2 /\ IsIdStart(s[2]) THEN
        LET n == IdRun(Tail(s))
            name == SubSeq(s, 2, n + 1)
        IN IF name \in DOMAIN m THEN Cons(PyStr(m[name]), substitute(Drop(s, n + 1), m))
           ELSE Raise("KeyError")
    ELSE IF /\ Len(s) >= 3 /\ s[2] = "{" /\ IsIdStart(s[3])
            /\ Len(s) >= 3 + IdRun(Drop(s, 2)) /\ s[3 + IdRun(Drop(s, 2))] = "}" THEN
        LET n == IdRun(Drop(s, 2))
            name == SubSeq(s, 3, n + 2)
        IN IF name \in DOMAIN m THEN Cons(PyStr(m[name]), substitute(Drop(s, n + 3), m))
           ELSE Raise("KeyError")
    ELSE Raise("ValueError")

----------------------------------------------------------------------------
(* process_template: the substitution mapping *)

PG_USER == <<"P", "G", "_", "U", "S", "E", "R">>
PG_PASSWORD == <<"P", "G", "_", "P", "A", "S", "S", "W", "O", "R", "D">>
PG_HOST == <<"P", "G", "_", "H", "O", "S", "T">>
PG_DATABASE == <<"P", "G", "_", "D", "A", "T", "A", "B", "A", "S", "E">>
PG_PORT == <<"P", "G", "_", "P", "O", "R", "T">>
PG_SCHEMA == <<"P", "G", "_", "S", "C", "H", "E", "M", "A">>
MLFLOW_PATH == <<"M", "L", "F", "L", "O", "W", "_", "P", "A", "T", "H">>
NAMESPACE == <<"N", "A", "M", "E", "S", "P", "A", "C", "E">>
B64Suffix == <<"_", "B", "6", "4">>

\* the keys process_template encodes, in the order of lines 36-41
PgKeys == <<PG_USER, PG_PASSWORD, PG_HOST, PG_DATABASE, PG_PORT, PG_SCHEMA>>
PgKeySet == {PgKeys[i] : i \in 1..Len(PgKeys)}

\* dict item assignment d[k] = v
DictSet(d, k, v) == [x \in DOMAIN d \cup {k} |-> IF x = k THEN v ELSE d[x]]

\* seeded fault in encode_keys: every *_B64 entry is computed from PG_USER
RECURSIVE encode_keys_same_source(_, _, _)
encode_keys_same_source(subs, cfg, i) ==
    IF i > Len(PgKeys) THEN Ok(subs)
    ELSE IF PgKeys[i] \notin DOMAIN cfg \/ PG_USER \notin DOMAIN cfg THEN Raise("KeyError")
    ELSE LET enc == base64_encode(cfg[PG_USER]) IN
         IF ~enc.ok THEN enc
         ELSE encode_keys_same_source(
                  DictSet(subs, PgKeys[i] \o B64Suffix, StrVal(enc.val)), cfg, i + 1)

\* seeded fault in encode_keys: config.get(key) in place of config[key], an absent
\* key is passed over
RECURSIVE encode_keys_skip_missing(_, _, _)
encode_keys_skip_missing(subs, cfg, i) ==
    IF i > Len(PgKeys) THEN Ok(subs)
    ELSE IF PgKeys[i] \notin DOMAIN cfg THEN encode_keys_skip_missing(subs, cfg, i + 1)
    ELSE LET enc == base64_encode(cfg[PgKeys[i]]) IN
         IF ~enc.ok THEN enc
         ELSE encode_keys_skip_missing(
                  DictSet(subs, PgKeys[i] \o B64Suffix, StrVal(enc.val)), cfg, i + 1)

\* lines 36-41 from the i-th assignment on: config[key] raises KeyError when
\* the key is absent, base64_encode may raise, otherwise the entry is stored
RECURSIVE encode_keys(_, _, _)
encode_keys(subs, cfg, i) ==
    IF i > Len(PgKeys) THEN Ok(subs)
    ELSE IF PgKeys[i] \notin DOMAIN cfg THEN Raise("KeyError")
    ELSE LET enc == base64_encode(cfg[PgKeys[i]]) IN
         IF ~enc.ok THEN enc
         ELSE encode_keys(DictSet(subs, PgKeys[i] \o B64Suffix, StrVal(enc.val)), cfg, i + 1)

\* lines 33-41: substitutions = config.copy(), then the six encoded entries
prepare_substitutions(cfg) == encode_keys(cfg, cfg, 1)


----------------------------------------------------------------------------
(* SpecTemplate: process_template on bounded templates and configurations *)

\* what a template is assembled from: literal text, $name, ${name}, $$ and a
\* "$" that starts none of these
Lit(s) == [k |-> "lit", s |-> s]
Named(s) == [k |-> "named", s |-> s]
Braced(s) == [k |-> "braced", s |-> s]
Escaped == [k |-> "escaped", s |-> <<>>]
Invalid == [k |-> "invalid", s |-> <<" ">>]

PieceText(p) ==
    CASE p.k = "lit" -> p.s
      [] p.k = "named" -> <<"$">> \o p.s
      [] p.k = "braced" -> <<"$", "{">> \o p.s \o <<"}">>
      [] p.k = "escaped" -> <<"$", "$">>
      [] OTHER -> <<"$">> \o p.s

RECURSIVE Flatten(_)
Flatten(ps) == IF ps = <<>> THEN <<>> ELSE PieceText(Head(ps)) \o Flatten(Tail(ps))

Pieces == {
    Lit(<<"u", ":">>), Lit(<<"-", "x">>),
    Named(PG_USER), Braced(PG_PORT), Named(PG_PASSWORD),
    Named(PG_PASSWORD \o B64Suffix), Braced(PG_PORT \o B64Suffix),
    Named(MLFLOW_PATH), Braced(NAMESPACE),
    Escaped, Invalid }

\* the pieces are the tokens of the flattened text: an unbraced name is not
\* followed by text that would extend it
Canonical(ps) ==
    \A i \in 1..(Len(ps) - 1) :
        ps[i].k = "named" => ~IsIdChar(Head(PieceText(ps[i + 1])))

Templates == {ps \in SeqsUpTo(Pieces, MaxPieces) : Canonical(ps)}

\* a per-environment configuration as yaml.safe_load returns it
FullConfig(password, port) ==
    [key \in PgKeySet \cup {MLFLOW_PATH, NAMESPACE} |->
        CASE key = PG_USER -> StrVal(<<"a", "d", "m", "i", "n">>)
          [] key = PG_PASSWORD -> password
          [] key = PG_HOST -> StrVal(<<"d", "b">>)
          [] key = PG_DATABASE -> StrVal(<<"m", "l", "f", "l", "o", "w">>)
          [] key = PG_PORT -> port
          [] key = PG_SCHEMA -> StrVal(<<"p", "u", "b", "l", "i", "c">>)
          [] key = MLFLOW_PATH -> StrVal(<<"/", "m", "l">>)
          [] OTHER -> StrVal(<<"d", "e", "v">>)]

Without(d, ks) == [x \in DOMAIN d \ ks |-> d[x]]

Passwords == {StrVal(<<"p", "w", "e_acute">>), StrVal(<<"p", "$", "w">>)}
Ports == {IntVal(5432), NoneVal}
Omissions == {{}, {PG_SCHEMA}, {PG_PASSWORD}, {NAMESPACE}, {MLFLOW_PATH, NAMESPACE}}

Configs == {Without(FullConfig(pw, port), ks) : pw \in Passwords, port \in Ports,
                                                 ks \in Omissions}

NoFile == [exists |-> FALSE, text |-> <<>>]
File(text) == [exists |-> TRUE, text |-> text]

TplIdle ==
    /\ tpl_pc = "idle"
    /\ tpl_pieces = <<>>
    /\ template_file = <<>>
    /\ template_content = <<>>
    /\ config = <<>>
    /\ substitutions = <<>>
    /\ result = <<>>
    /\ output_file = NoFile
    /\ output_before = NoFile
    /\ tpl_error = "none"

TplInit ==
    /\ tpl_pc = "start"
    /\ tpl_pieces \in Templates
    /\ template_file = Flatten(tpl_pieces)
    /\ template_content = <<>>
    /\ config \in Configs
    /\ substitutions = <<>>
    /\ result = <<>>
    /\ output_file \in {NoFile, File(<<"o", "l", "d">>)}
    /\ output_before = output_file
    /\ tpl_error = "none"

\* lines 47-48: open(output_file, 'w') and f.write(result)
write_output(file, text) == File(text)

\* lines 26-27
ReadTemplate ==
    /\ tpl_pc = "start"
    /\ template_content' = template_file
    /\ tpl_pc' = "read"
    /\ UNCHANGED <<tpl_pieces, template_file, config, substitutions, result,
                   output_file, output_before, tpl_error>>
    /\ UNCHANGED <<varsB64, varsVer, varsPoll, varsCfg, varsScr, varsExp, varsDep, varsTrn, varsAuth, varsGen, varsSel, varsArt, varsStg>>

\* lines 33-41
PrepareSubstitutions ==
    /\ tpl_pc = "read"
    /\ LET r == prepare_substitutions(config) IN
       IF r.ok
       THEN /\ substitutions' = r.val
            /\ tpl_pc' = "prepared"
            /\ UNCHANGED tpl_error
       ELSE /\ tpl_error' = r.err
            /\ tpl_pc' = "raised"
            /\ UNCHANGED substitutions
    /\ UNCHANGED <<tpl_pieces, template_file, template_content, config, result,
                   output_file, output_before>>
    /\ UNCHANGED <<varsB64, varsVer, varsPoll, varsCfg, varsScr, varsExp, varsDep, varsTrn, varsAuth, varsGen, varsSel, varsArt, varsStg>>

\* line 44
Substitute ==
    /\ tpl_pc = "prepared"
    /\ LET r == substitute(template_content, substitutions) IN
       IF r.ok
       THEN /\ result' = r.val
            /\ tpl_pc' = "substituted"
            /\ UNCHANGED tpl_error
       ELSE /\ tpl_error' = r.err
            /\ tpl_pc' = "raised"
            /\ UNCHANGED result
    /\ UNCHANGED <<tpl_pieces, template_file, template_content, config, substitutions,
                   output_file, output_before>>
    /\ UNCHANGED <<varsB64, varsVer, varsPoll, varsCfg, varsScr, varsExp, varsDep, varsTrn, varsAuth, varsGen, varsSel, varsArt, varsStg>>

\* lines 47-50
WriteOutput ==
    /\ tpl_pc = "substituted"
    /\ output_file' = write_output(output_file, result)
    /\ tpl_pc' = "done"
    /\ UNCHANGED <<tpl_pieces, template_file, template_content, config, substitutions,
                   result, output_before, tpl_error>>
    /\ UNCHANGED <<varsB64, varsVer, varsPoll, varsCfg, varsScr, varsExp, varsDep, varsTrn, varsAuth, varsGen, varsSel, varsArt, varsStg>>

----------------------------------------------------------------------------
(* test-deployment.py: the cluster checks *)

\* what run_command returns for a kubectl query: the return code and what
\* json.loads makes of stdout. An item is a listed resource: has_name says
\* metadata.name is present, has_attrs that the further fields the check
\* reads are (status.phase; spec.type and spec.ports[0].port; type).
Item(has_name, has_attrs, phase) ==
    [has_name |-> has_name, has_attrs |-> has_attrs, phase |-> phase]

Items == {Item(TRUE, TRUE, "Running"), Item(TRUE, TRUE, "Pending"),
          Item(FALSE, TRUE, "Running"), Item(TRUE, FALSE, "Running")}

Response(rc, json, dict, has_items, items) ==
    [returncode |-> rc, json |-> json, dict |-> dict, has_items |-> has_items,
     items |-> items]

CmdFail == Response(1, FALSE, FALSE, FALSE, <<>>)
NotJson == Response(0, FALSE, FALSE, FALSE, <<>>)
NotDict == Response(0, TRUE, FALSE, FALSE, <<>>)
NoItemsKey == Response(0, TRUE, TRUE, FALSE, <<>>)
Listing(items) == Response(0, TRUE, TRUE, TRUE, items)

Responses ==
    {CmdFail, NotJson, NotDict, NoItemsKey}
    \cup {Listing(items) : items \in SeqsUpTo(Items, MaxItems)}

\* kubectl get namespace prints no JSON: only the return code is read
NamespaceResponses == {Response(0, FALSE, FALSE, FALSE, <<>>), CmdFail}

\* lines 20-31
test_namespace(resp) == IF resp.returncode = 0 THEN "True" ELSE "False"

\* the body shared by lines 39-61, 69-87, 96-113 and 121-138: a JSONDecodeError
\* is caught and gives False; data['items'] on a document that is no mapping or
\* has no such key, and a field missing from a listed item, raise out of the
\* function; a non-empty listing gives True once every item has been printed
check_listing(resp) ==
    IF resp.returncode # 0 THEN "False"
    ELSE IF ~resp.json THEN "False"
    ELSE IF ~resp.dict \/ ~resp.has_items THEN "raised"
    ELSE IF resp.items = <<>> THEN "False"
    ELSE IF \E i \in 1..Len(resp.items) :
                ~resp.items[i].has_name \/ ~resp.items[i].has_attrs THEN "raised"
    ELSE "True"

\* lines 33-61: the phase of a pod only selects the line that is printed
test_pods(resp) == check_listing(resp)

\* lines 63-87
test_services(resp) == check_listing(resp)

\* lines 89-113
test_storage(resp) == check_listing(resp)

\* lines 115-138
test_secrets(resp) == check_listing(resp)

\* seeded fault in tests: the pods are checked before the namespace
tests_pods_first == <<"Pods", "Namespace", "Services", "Storage", "Secrets">>

\* lines 154-160
tests == <<"Namespace", "Pods", "Services", "Storage", "Secrets">>

test_func(name, resp) ==
    CASE name = "Namespace" -> test_namespace(resp)
      [] name = "Pods" -> test_pods(resp)
      [] name = "Services" -> test_services(resp)
      [] name = "Storage" -> test_storage(resp)
      [] OTHER -> test_secrets(resp)

\* the resource kind of the one kubectl get each check function runs (lines
\* 25, 38, 68, 95, 120)
query_of(name) ==
    CASE name = "Namespace" -> "namespace"
      [] name = "Pods" -> "pods"
      [] name = "Services" -> "svc"
      [] name = "Storage" -> "pvc"
      [] OTHER -> "secrets"

\* seeded fault in record_result: the except branch is missing, the exception ends
\* the loop
record_result_no_except(res, name, outcome) ==
    IF outcome = "raised" THEN res ELSE Append(res, <<name, outcome = "True">>)

\* lines 165-170: the result is appended, False when the check raised
record_result(res, name, outcome) ==
    IF outcome = "raised" THEN Append(res, <<name, FALSE>>)
    ELSE Append(res, <<name, outcome = "True">>)

\* lines 175-182
count_passed(res) == Cardinality({i \in 1..Len(res) : res[i][2]})

\* seeded fault in exit_status: success as soon as one check passed
exit_status_any(p, t) == IF p > 0 THEN 0 ELSE 1

\* lines 186-191
exit_status(p, t) == IF p = t THEN 0 ELSE 1

\* seeded fault in args_valid: the environment name is not looked at
args_valid_count_only(args) == Len(args) = 1

\* lines 142-149: one positional argument, 'dev' or 'prod'
args_valid(args) == Len(args) = 1 /\ args[1] \in {"dev", "prod"}

Argvs == {<<>>, <<"dev">>, <<"prod">>, <<"staging">>, <<"dev", "prod">>}

VerIdle ==
    /\ ver_pc = "idle"
    /\ argv = <<>>
    /\ results = <<>>
    /\ outcomes = <<>>
    /\ last_response = CmdFail
    /\ summary = <<>>
    /\ passed = 0
    /\ total = 0
    /\ ver_exit = -1
    /\ queries = <<>>

VerInit ==
    /\ ver_pc = "start"
    /\ argv \in Argvs
    /\ results = <<>>
    /\ outcomes = <<>>
    /\ last_response = CmdFail
    /\ summary = <<>>
    /\ passed = 0
    /\ total = 0
    /\ ver_exit = -1
    /\ queries = <<>>

\* lines 142-152
CheckArgs ==
    /\ ver_pc = "start"
    /\ IF ~args_valid(argv)
       THEN ver_pc' = "exited" /\ ver_exit' = 1
       ELSE ver_pc' = "testing" /\ UNCHANGED ver_exit
    /\ UNCHANGED <<argv, results, outcomes, last_response, summary, passed, total, queries>>
    /\ UNCHANGED <<varsB64, varsTpl, varsPoll, varsCfg, varsScr, varsExp, varsDep, varsTrn, varsAuth, varsGen, varsSel, varsArt, varsStg>>

\* lines 163-170, one iteration: the next check queries the cluster once
RunTest ==
    /\ ver_pc = "testing"
    /\ Len(results) < Len(tests)
    /\ LET name == tests[Len(results) + 1] IN
       \E resp \in (IF name = "Namespace" THEN NamespaceResponses ELSE Responses) :
           /\ last_response' = resp
           /\ queries' = Append(queries, query_of(name))
           /\ outcomes' = Append(outcomes, test_func(name, resp))
           /\ results' = record_result(results, name, test_func(name, resp))
    /\ UNCHANGED <<ver_pc, argv, summary, passed, total, ver_exit>>
    /\ UNCHANGED <<varsB64, varsTpl, varsPoll, varsCfg, varsScr, varsExp, varsDep, varsTrn, varsAuth, varsGen, varsSel, varsArt, varsStg>>

\* lines 172-184
Summarize ==
    /\ ver_pc = "testing"
    /\ Len(results) = Len(tests)
    /\ summary' = [i \in 1..Len(results) |->
                      <<results[i][1], IF results[i][2] THEN "PASS" ELSE "FAIL">>]
    /\ passed' = count_passed(results)
    /\ total' = Len(results)
    /\ ver_pc' = "summarized"
    /\ UNCHANGED <<argv, results, outcomes, last_response, ver_exit, queries>>
    /\ UNCHANGED <<varsB64, varsTpl, varsPoll, varsCfg, varsScr, varsExp, varsDep, varsTrn, varsAuth, varsGen, varsSel, varsArt, varsStg>>

\* lines 186-191
VerExit ==
    /\ ver_pc = "summarized"
    /\ ver_exit' = exit_status(passed, total)
    /\ ver_pc' = "exited"
    /\ UNCHANGED <<argv, results, outcomes, last_response, summary, passed, total, queries>>
    /\ UNCHANGED <<varsB64, varsTpl, varsPoll, varsCfg, varsScr, varsExp, varsDep, varsTrn, varsAuth, varsGen, varsSel, varsArt, varsStg>>

----------------------------------------------------------------------------
(* train_voltage_model.py: _wait_for_mlflow_server *)

\* max_wait=60 in the signature
DefaultMaxWait == 60

\* what one requests.get of the health endpoint gives: a response with status
\* 200, a response with another status, or a RequestException (refused,
\* timed out after timeout=5)
HealthAnswers(srv) ==
    IF srv = "never200" THEN {"503", "RequestException"}
    ELSE {"200", "503", "RequestException"}

\* seeded fault in is_ready: any response counts, whatever its status
is_ready_any_response(answer) == answer # "RequestException"

\* line 105
is_ready(answer) == answer = "200"

\* lines 108-110
warns(answer, i) == answer = "RequestException" /\ i % 10 = 0

\* seeded fault in attempts_left: one attempt more than the ceiling
attempts_left_inclusive(i, n) == i <= n

\* line 102: for i in range(max_wait)
attempts_left(i, n) == i < n

\* seeded fault in init_continues: the ConnectionError is swallowed
init_continues_after_failure(pc) == pc \in {"returned", "raised"}

\* lines 47-51: __init__ goes on to set_experiment only when
\* _wait_for_mlflow_server returned; its ConnectionError leaves __init__
init_continues(pc) == pc = "returned"

\* what main does once the poll is over is not started yet
TrainerWaiting ==
    /\ last_answer = "none"
    /\ trainer_pc = "init"
    /\ trainer_experiment = "none"
    /\ trainer_run = "none"
    /\ trainer_logged = FALSE
    /\ main_exit = -1

PollIdle ==
    /\ poll_pc = "idle"
    /\ server = "any"
    /\ max_wait = 0
    /\ poll_i = 0
    /\ requests = 0
    /\ warnings = 0
    /\ TrainerWaiting

PollInit ==
    /\ poll_pc = "request"
    /\ server \in {"never200", "any"}
    /\ max_wait \in (0..MaxWaitArg) \cup {DefaultMaxWait}
    /\ poll_i = 0
    /\ requests = 0
    /\ warnings = 0
    /\ TrainerWaiting

\* lines 102-110: one pass of the loop body up to the sleep
PollRequest ==
    /\ poll_pc = "request"
    /\ attempts_left(poll_i, max_wait)
    /\ requests' = requests + 1
    /\ \E answer \in HealthAnswers(server) :
           /\ last_answer' = answer
           /\ poll_pc' = IF is_ready(answer) THEN "returned" ELSE "sleep"
           /\ warnings' = IF warns(answer, poll_i) THEN warnings + 1 ELSE warnings
    /\ UNCHANGED <<server, max_wait, poll_i>>
    /\ UNCHANGED <<trainer_pc, trainer_experiment, trainer_run, trainer_logged, main_exit>>
    /\ UNCHANGED <<varsB64, varsTpl, varsVer, varsCfg, varsScr, varsExp, varsDep, varsTrn, varsAuth, varsGen, varsSel, varsArt, varsStg>>

\* line 112, and the loop moves to its next index
PollSleep ==
    /\ poll_pc = "sleep"
    /\ poll_i' = poll_i + 1
    /\ poll_pc' = "request"
    /\ UNCHANGED <<server, max_wait, requests, warnings, last_answer>>
    /\ UNCHANGED <<trainer_pc, trainer_experiment, trainer_run, trainer_logged, main_exit>>
    /\ UNCHANGED <<varsB64, varsTpl, varsVer, varsCfg, varsScr, varsExp, varsDep, varsTrn, varsAuth, varsGen, varsSel, varsArt, varsStg>>

\* line 114: range(max_wait) is exhausted
PollGiveUp ==
    /\ poll_pc = "request"
    /\ ~attempts_left(poll_i, max_wait)
    /\ poll_pc' = "raised"
    /\ UNCHANGED <<server, max_wait, poll_i, requests, warnings, last_answer>>
    /\ UNCHANGED <<trainer_pc, trainer_experiment, trainer_run, trainer_logged, main_exit>>
    /\ UNCHANGED <<varsB64, varsTpl, varsVer, varsCfg, varsScr, varsExp, varsDep, varsTrn, varsAuth, varsGen, varsSel, varsArt, varsStg>>

\* lines 50-51: mlflow.set_experiment, which may raise
TrainerSetExperiment ==
    /\ trainer_pc = "init"
    /\ init_continues(poll_pc)
    /\ \E ok \in BOOLEAN :
           IF ok THEN /\ trainer_experiment' = "voltage-fluctuation-prediction"
                      /\ trainer_pc' = "ready"
           ELSE /\ trainer_pc' = "failed"
                /\ UNCHANGED trainer_experiment
    /\ UNCHANGED <<poll_pc, server, max_wait, poll_i, requests, warnings, last_answer>>
    /\ UNCHANGED <<trainer_run, trainer_logged, main_exit>>
    /\ UNCHANGED <<varsB64, varsTpl, varsVer, varsCfg, varsScr, varsExp, varsDep, varsTrn, varsAuth, varsGen, varsSel, varsArt, varsStg>>

\* line 335, train_model as a whole: it raises before start_run (lines
\* 183-218), or inside the run, which then ends as FAILED with what was
\* logged so far, or it returns with the run FINISHED
TrainerTrainModel ==
    /\ trainer_pc = "ready"
    /\ \/ /\ trainer_pc' = "failed"
          /\ UNCHANGED <<trainer_run, trainer_logged>>
       \/ /\ trainer_pc' = "failed"
          /\ trainer_run' = "FAILED"
          /\ trainer_logged' \in BOOLEAN
       \/ /\ trainer_pc' = "trained"
          /\ trainer_run' = "FINISHED"
          /\ trainer_logged' = TRUE
    /\ UNCHANGED <<poll_pc, server, max_wait, poll_i, requests, warnings, last_answer>>
    /\ UNCHANGED <<trainer_experiment, main_exit>>
    /\ UNCHANGED <<varsB64, varsTpl, varsVer, varsCfg, varsScr, varsExp, varsDep, varsTrn, varsAuth, varsGen, varsSel, varsArt, varsStg>>

\* lines 337-342: main returns after a completed training; any exception of
\* the trainer, the ConnectionError of the poll included, is logged and
\* followed by sys.exit(1)
TrainerMainExit ==
    /\ \/ trainer_pc \in {"trained", "failed"}
       \/ trainer_pc = "init" /\ poll_pc = "raised"
    /\ main_exit' = IF trainer_pc = "trained" THEN 0 ELSE 1
    /\ trainer_pc' = "exited"
    /\ UNCHANGED <<poll_pc, server, max_wait, poll_i, requests, warnings, last_answer>>
    /\ UNCHANGED <<trainer_experiment, trainer_run, trainer_logged>>
    /\ UNCHANGED <<varsB64, varsTpl, varsVer, varsCfg, varsScr, varsExp, varsDep, varsTrn, varsAuth, varsGen, varsSel, varsArt, varsStg>>

----------------------------------------------------------------------------
(* train_voltage_model.py: _load_config and the settings train_model reads *)

\* a setting is a scalar or a nested mapping (sub); src tells whether the
\* value comes from default_config or from the user's file
Scalar(src) == [scalar |-> TRUE, src |-> src, sub |-> <<>>]
Section(sub) == [scalar |-> FALSE, src |-> "none", sub |-> sub]

DataKeys == {"n_samples", "test_size", "random_state", "validation_split"}
ModelKeys == {"random_forest", "gradient_boosting"}
TrainingKeys == {"cross_validation", "cv_folds", "enable_feature_scaling"}

SectionKeys(name) ==
    CASE name = "data_config" -> DataKeys
      [] name = "model_config" -> ModelKeys
      [] OTHER -> TrainingKeys

SectionNames == {"data_config", "model_config", "training_config"}
ScalarNames == {"experiment_name", "model_name"}

\* lines 57-86
default_config ==
    [name \in ScalarNames \cup SectionNames |->
        IF name \in ScalarNames THEN Scalar("default")
        ELSE Section([k \in SectionKeys(name) |-> "default"])]

\* what the user's file gives for one nested setting: nothing, or a mapping
\* holding some of its keys
SectionChoices(name) ==
    {[present |-> FALSE, keys |-> {}]}
    \cup {[present |-> TRUE, keys |-> ks] : ks \in SUBSET SectionKeys(name)}

UserMapping(scalars, d, m, t) ==
    LET pick == [name \in SectionNames |->
                    CASE name = "data_config" -> d
                      [] name = "model_config" -> m
                      [] OTHER -> t]
    IN [name \in scalars \cup {x \in SectionNames : pick[x].present} |->
           IF name \in scalars THEN Scalar("user")
           ELSE Section([k \in pick[name].keys |-> "user"])]

\* the config_file argument and what yaml.safe_load makes of it: no file (None
\* or a path that does not exist), an empty document (None, on which
\* dict.update raises TypeError), or a mapping
NoConfigFile == [kind |-> "nofile", map |-> <<>>]
EmptyConfigFile == [kind |-> "empty", map |-> <<>>]
MappingConfigFile(map) == [kind |-> "mapping", map |-> map]

ConfigFiles ==
    {NoConfigFile, EmptyConfigFile}
    \cup {MappingConfigFile(UserMapping(scalars, d, m, t)) :
            scalars \in {{}, ScalarNames},
            d \in SectionChoices("data_config"),
            m \in SectionChoices("model_config"),
            t \in SectionChoices("training_config")}

\* line 92: dict.update replaces each top-level entry the user's mapping has
dict_update(d, u) ==
    [name \in DOMAIN d \cup DOMAIN u |-> IF name \in DOMAIN u THEN u[name] ELSE d[name]]

\* lines 55-96: a failure while reading the file is logged and the defaults
\* are returned
load_config_file(file) ==
    IF file.kind = "mapping" THEN dict_update(default_config, file.map)
    ELSE default_config

\* the settings generate_voltage_data and train_model index, in the order of
\* lines 120-122, 193-197, 203, 212, 244, 247 and 307
Reads(mtype) == <<
    <<"data_config", "n_samples">>, <<"data_config", "random_state">>,
    <<"data_config", "test_size">>, <<"data_config", "random_state">>,
    <<"training_config", "enable_feature_scaling">>,
    <<"model_config", mtype>>,
    <<"training_config", "cross_validation">>,
    <<"training_config", "cv_folds">>,
    <<"model_name", "">> >>

\* self.config[a][b], or self.config[a] for a scalar: present or KeyError
HasSetting(cfg, read) ==
    /\ read[1] \in DOMAIN cfg
    /\ (read[1] \in SectionNames =>
           ~cfg[read[1]].scalar /\ read[2] \in DOMAIN cfg[read[1]].sub)

CfgIdle ==
    /\ cfg_pc = "idle"
    /\ config_file = NoConfigFile
    /\ model_type = "random_forest"
    /\ trainer_config = <<>>
    /\ cfg_i = 0

CfgInit ==
    /\ cfg_pc = "start"
    /\ config_file \in ConfigFiles
    /\ model_type \in ModelKeys
    /\ trainer_config = <<>>
    /\ cfg_i = 0

\* line 40: self.config = self._load_config(config_file)
LoadConfig ==
    /\ cfg_pc = "start"
    /\ trainer_config' = load_config_file(config_file)
    /\ cfg_pc' = "loaded"
    /\ cfg_i' = 1
    /\ UNCHANGED <<config_file, model_type>>
    /\ UNCHANGED <<varsB64, varsTpl, varsVer, varsPoll, varsScr, varsExp, varsDep, varsTrn, varsAuth, varsGen, varsSel, varsArt, varsStg>>

\* train_model indexes its next setting: KeyError when it is absent. The
\* cv_folds read of line 247 is skipped when cross_validation is false, which
\* only a user-supplied value can be
ReadSetting ==
    /\ cfg_pc = "loaded"
    /\ cfg_i <= Len(Reads(model_type))
    /\ LET read == Reads(model_type)[cfg_i] IN
       \/ /\ HasSetting(trainer_config, read)
          /\ cfg_i' = cfg_i + 1
          /\ UNCHANGED cfg_pc
       \/ /\ ~HasSetting(trainer_config, read)
          /\ cfg_pc' = "raised"
          /\ UNCHANGED cfg_i
       \/ /\ read = <<"training_config", "cv_folds">>
          /\ trainer_config["training_config"].sub["cross_validation"] = "user"
          /\ cfg_i' = cfg_i + 1
          /\ UNCHANGED cfg_pc
    /\ UNCHANGED <<config_file, model_type, trainer_config>>
    /\ UNCHANGED <<varsB64, varsTpl, varsVer, varsPoll, varsScr, varsExp, varsDep, varsTrn, varsAuth, varsGen, varsSel, varsArt, varsStg>>

\* line 304: train_model returns its result
TrainReturn ==
    /\ cfg_pc = "loaded"
    /\ cfg_i > Len(Reads(model_type))
    /\ cfg_pc' = "done"
    /\ UNCHANGED <<config_file, model_type, trainer_config, cfg_i>>
    /\ UNCHANGED <<varsB64, varsTpl, varsVer, varsPoll, varsScr, varsExp, varsDep, varsTrn, varsAuth, varsGen, varsSel, varsArt, varsStg>>

----------------------------------------------------------------------------
(* The tracking scripts: localtestazureblob/simple_test.py,                *)
(* localtestazureblob/test_mlflow_azure_blob.py, test/test_mlflow_artifact.py *)

\* one statement of a script: the call it makes (op, arg), whether the call
\* can raise ("never", "may", "always"), and the try block around it: "outer"
\* is the try/except Exception of the whole function, "inner" the try around
\* the artifact calls, "none" no handler at all
Step(op, arg, raises, guard) == [op |-> op, arg |-> arg, raises |-> raises, guard |-> guard]

\* simple_test.py lines 41-103. The temporary file of line 79 is opened in
\* the default binary mode, so the json.dump of line 80 raises TypeError
simple_test == <<
    Step("get_experiment_by_name", "simple-azure-blob-test", "may", "outer"),
    Step("create_experiment", "simple-azure-blob-test", "may", "outer"),
    Step("set_experiment", "simple-azure-blob-test", "may", "outer"),
    Step("start_run", "simple-test", "may", "outer"),
    Step("log_param", "test_type", "may", "outer"),
    Step("log_param", "timestamp", "may", "outer"),
    Step("log_metric", "accuracy", "may", "outer"),
    Step("log_metric", "precision", "may", "outer"),
    Step("log_metric", "recall", "may", "outer"),
    Step("tmp_create", "json", "never", "outer"),
    Step("tmp_write", "json", "always", "outer"),
    Step("log_artifact", "json", "may", "outer"),
    Step("unlink", "json", "never", "outer"),
    Step("end_run", "", "never", "outer"),
    Step("search_experiments", "", "may", "outer") >>

\* test_mlflow_azure_blob.py lines 42-144: the files are opened with mode='w'
\* and closed before log_artifact; os.unlink has a try/except of its own
simple_artifact_test == <<
    Step("get_experiment_by_name", "artifacts-test", "may", "outer"),
    Step("create_experiment", "artifacts-test", "may", "outer"),
    Step("set_experiment", "artifacts-test", "may", "outer"),
    Step("start_run", "artifacts-run", "may", "outer"),
    Step("log_param", "test_type", "may", "outer"),
    Step("log_param", "timestamp", "may", "outer"),
    Step("tmp_create", "json", "never", "outer"),
    Step("tmp_write", "json", "never", "outer"),
    Step("tmp_close", "json", "never", "outer"),
    Step("log_artifact", "json", "may", "outer"),
    Step("unlink", "json", "never", "outer"),
    Step("tmp_create", "csv", "never", "outer"),
    Step("tmp_write", "csv", "never", "outer"),
    Step("tmp_close", "csv", "never", "outer"),
    Step("log_artifact", "csv", "may", "outer"),
    Step("unlink", "csv", "never", "outer"),
    Step("tmp_create", "txt", "never", "outer"),
    Step("tmp_write", "txt", "never", "outer"),
    Step("tmp_close", "txt", "never", "outer"),
    Step("log_artifact", "txt", "may", "outer"),
    Step("unlink", "txt", "never", "outer"),
    Step("end_run", "", "never", "outer") >>

\* test_mlflow_artifact.py main, lines 84-190: only the two artifact calls of
\* lines 156-173 are inside a try
artifact_main == <<
    Step("verify_mount_access", "", "never", "none"),
    Step("set_tracking_uri", "", "never", "none"),
    Step("start_run", "test_artifact_logging_debug", "may", "none"),
    Step("log_param", "test_type", "may", "none"),
    Step("log_param", "environment", "may", "none"),
    Step("log_param", "mlflow_tracking_log_level", "may", "none"),
    Step("log_param", "connection_mode", "may", "none"),
    Step("log_metric", "test_score", "may", "none"),
    Step("log_metric", "artifact_count", "may", "none"),
    Step("write_file", "test-write-access.txt", "may", "none"),
    Step("log_artifact", "test-write-access.txt", "may", "inner"),
    Step("log_dict", "metadata.json", "may", "inner"),
    Step("print_run_info", "", "never", "none"),
    Step("end_run", "", "never", "none") >>

\* train_voltage_model.py train_model, lines 221-296, called from the try of
\* main (lines 330-342) whose handler logs the error and exits with status 1:
\* only the three log_dict calls of lines 266-284 are inside a try of their own
voltage_train_model == <<
    Step("start_run", "voltage_model", "may", "main"),
    Step("log_param", "model_type", "may", "main"),
    Step("log_param", "model_version", "may", "main"),
    Step("log_param", "training_samples", "may", "main"),
    Step("log_param", "test_samples", "may", "main"),
    Step("log_param", "n_features", "may", "main"),
    Step("log_param", "feature_scaling", "may", "main"),
    Step("log_param", "model_hyperparameters", "may", "main"),
    Step("log_metric", "cv_mean_accuracy", "may", "main"),
    Step("log_metric", "cv_std_accuracy", "may", "main"),
    Step("log_metric", "accuracy", "may", "main"),
    Step("log_metric", "training_time_seconds", "may", "main"),
    Step("log_metric", "feature_importance", "may", "main"),
    Step("log_dict", "classification_report.json", "may", "inner"),
    Step("log_dict", "confusion_matrix.json", "may", "inner"),
    Step("log_dict", "model_metadata.json", "may", "inner"),
    Step("set_tag", "model_domain", "may", "main"),
    Step("set_tag", "model_type", "may", "main"),
    Step("set_tag", "model_version", "may", "main"),
    Step("set_tag", "environment", "may", "main"),
    Step("set_tag", "data_source", "may", "main"),
    Step("end_run", "", "never", "main") >>

Scripts == {"simple_test", "simple_artifact_test", "artifact_main", "voltage_train_model"}

Program(name) ==
    CASE name = "simple_test" -> simple_test
      [] name = "simple_artifact_test" -> simple_artifact_test
      [] name = "voltage_train_model" -> voltage_train_model
      [] OTHER -> artifact_main

\* seeded fault in AfterInner: the handler is around the rest of the run
AfterInner_skip_rest(prog, i) == Len(prog) + 1

\* the first statement after the inner try block that holds statement i
AfterInner(prog, i) ==
    CHOOSE j \in (i + 1)..(Len(prog) + 1) :
        /\ j = Len(prog) + 1 \/ prog[j].guard # "inner"
        /\ \A k \in (i + 1)..(j - 1) : prog[k].guard = "inner"

\* the exit status of the process when a statement raises: an exception no
\* handler catches ends the interpreter with status 1; after a handler that
\* only prints, the script runs on to its end and the status is 0; the handler
\* of train_voltage_model.py main calls sys.exit(1)
status_after_raise(guard) == IF guard \in {"none", "main"} THEN 1 ELSE 0

\* the tracking server's and the file system's state after a successful call
Effect(st, tr) ==
    CASE st.op = "create_experiment" ->
            [tr EXCEPT !.experiments = @ \cup {st.arg}]
      [] st.op = "start_run" -> [tr EXCEPT !.run = "RUNNING"]
      [] st.op = "end_run" -> [tr EXCEPT !.run = "FINISHED"]
      [] st.op \in {"log_param", "log_metric", "log_artifact", "log_dict", "set_tag"} ->
            [tr EXCEPT !.logged = Append(@, <<st.op, st.arg>>)]
      [] st.op = "tmp_create" -> [tr EXCEPT !.tmp_files = @ \cup {st.arg}]
      [] st.op = "unlink" -> [tr EXCEPT !.tmp_files = @ \ {st.arg}]
      [] OTHER -> tr

\* leaving the with mlflow.start_run() block on an exception ends the run as
\* FAILED
EndOnException(tr) == IF tr.run = "RUNNING" THEN [tr EXCEPT !.run = "FAILED"] ELSE tr

ScrIdle ==
    /\ scr = "none"
    /\ scr_pc = "idle"
    /\ scr_i = 0
    /\ tracking = [experiments |-> {}, run |-> "none", logged |-> <<>>, tmp_files |-> {}]
    /\ mount_ok = TRUE
    /\ raised_at = <<>>
    /\ scr_exit = -1

ScrInit ==
    /\ scr \in Scripts
    /\ scr_pc = "running"
    /\ scr_i = 1
    /\ \E exps \in SUBSET {"simple-azure-blob-test", "artifacts-test"} :
           tracking = [experiments |-> exps, run |-> "none", logged |-> <<>>,
                       tmp_files |-> {}]
    /\ mount_ok \in BOOLEAN
    /\ raised_at = <<>>
    /\ scr_exit = -1

\* the next statement runs to completion. create_experiment is skipped when
\* get_experiment_by_name found the experiment; a failed mount check is
\* sys.exit(1) (test_mlflow_artifact.py lines 85-87)
ScrStep ==
    /\ scr_pc = "running"
    /\ scr_i <= Len(Program(scr))
    /\ LET st == Program(scr)[scr_i] IN
       /\ st.raises # "always"
       /\ IF st.op = "verify_mount_access" /\ ~mount_ok
          THEN /\ scr_pc' = "exited"
               /\ scr_exit' = 1
               /\ UNCHANGED <<scr_i, tracking>>
          ELSE /\ tracking' =
                     IF st.op = "create_experiment" /\ st.arg \in tracking.experiments
                     THEN tracking ELSE Effect(st, tracking)
               /\ scr_i' = scr_i + 1
               /\ UNCHANGED <<scr_pc, scr_exit>>
    /\ UNCHANGED <<scr, mount_ok, raised_at>>
    /\ UNCHANGED <<varsB64, varsTpl, varsVer, varsPoll, varsCfg, varsExp, varsDep, varsTrn, varsAuth, varsGen, varsSel, varsArt, varsStg>>

\* the next statement raises. Inside the inner try the rest of the block is
\* skipped and the script goes on; inside the outer try the handler prints and
\* the function returns; with no handler the exception ends the process
ScrRaise ==
    /\ scr_pc = "running"
    /\ scr_i <= Len(Program(scr))
    /\ LET st == Program(scr)[scr_i] IN
       /\ st.raises # "never"
       /\ ~(st.op = "create_experiment" /\ st.arg \in tracking.experiments)
       /\ raised_at' = Append(raised_at, scr_i)
       /\ IF st.guard = "inner"
          THEN /\ scr_i' = AfterInner(Program(scr), scr_i)
               /\ UNCHANGED <<tracking, scr_pc, scr_exit>>
          ELSE /\ tracking' = EndOnException(tracking)
               /\ scr_pc' = "exited"
               /\ scr_exit' = status_after_raise(st.guard)
               /\ UNCHANGED scr_i
    /\ UNCHANGED <<scr, mount_ok>>
    /\ UNCHANGED <<varsB64, varsTpl, varsVer, varsPoll, varsCfg, varsExp, varsDep, varsTrn, varsAuth, varsGen, varsSel, varsArt, varsStg>>

\* the script runs off its end: the interpreter exits with status 0
ScrEnd ==
    /\ scr_pc = "running"
    /\ scr_i > Len(Program(scr))
    /\ scr_pc' = "exited"
    /\ scr_exit' = 0
    /\ UNCHANGED <<scr, scr_i, tracking, mount_ok, raised_at>>
    /\ UNCHANGED <<varsB64, varsTpl, varsVer, varsPoll, varsCfg, varsExp, varsDep, varsTrn, varsAuth, varsGen, varsSel, varsArt, varsStg>>

----------------------------------------------------------------------------
(* create experiment if absent: simple_test.py, training.py and            *)
(* voltage_training_working.py, invoked again and again on one server      *)

ExpScripts == {"simple_test", "train_model", "WorkingVoltageTrainer"}

\* the experiment name each script uses
ExperimentName(script) ==
    CASE script = "simple_test" -> "simple-azure-blob-test"
      [] script = "train_model" -> "ML_Experiments"
      [] OTHER -> "working-voltage-prediction"

HasExperiment(store, name) == \E i \in DOMAIN store : store[i] = name

\* mlflow.create_experiment: the server refuses a name it already holds
mlflow_create_experiment(store, name, up) ==
    IF ~up THEN Raise("ConnectionError")
    ELSE IF HasExperiment(store, name) THEN Raise("RESOURCE_ALREADY_EXISTS")
    ELSE Ok(Append(store, name))

\* mlflow.get_experiment_by_name: whether there is one (None when not)
mlflow_get_experiment_by_name(store, name, up) ==
    IF ~up THEN Raise("ConnectionError") ELSE Ok(HasExperiment(store, name))

\* mlflow.set_experiment: makes the experiment active, creating it when absent
mlflow_set_experiment(store, name, up) ==
    IF ~up THEN Raise("ConnectionError")
    ELSE Ok(IF HasExperiment(store, name) THEN store ELSE Append(store, name))

\* what the step leaves: the server's experiments, whether this invocation
\* created one, and how the step ended ("ok", "handled" by the function's own
\* except, "uncaught")
Ensured(store, created, outcome) ==
    [store |-> store, created |-> created, outcome |-> outcome]

\* simple_test.py lines 43-52, inside the try of line 41
simple_test_experiment(store, up) ==
    LET name == ExperimentName("simple_test")
        found == mlflow_get_experiment_by_name(store, name, up)
        made == mlflow_create_experiment(store, name, up)
        create == found.ok /\ ~found.val
        after == IF create /\ made.ok THEN made.val ELSE store
        set == mlflow_set_experiment(after, name, up)
    IN  IF ~found.ok \/ (create /\ ~made.ok) \/ ~set.ok
        THEN Ensured(store, FALSE, "handled")
        ELSE Ensured(set.val, create, "ok")

\* seeded fault in train_model_experiment: no except around create_experiment
train_model_experiment_no_except(store, up) ==
    LET made == mlflow_create_experiment(store, ExperimentName("train_model"), up)
    IN  IF made.ok THEN Ensured(made.val, TRUE, "ok")
        ELSE Ensured(store, FALSE, "uncaught")

\* training.py lines 37-43: experiment.experiment_id of line 42 raises
\* AttributeError when get_experiment_by_name returned None
train_model_experiment(store, up) ==
    LET name == ExperimentName("train_model")
        made == mlflow_create_experiment(store, name, up)
        found == mlflow_get_experiment_by_name(store, name, up)
    IN  IF made.ok THEN Ensured(made.val, TRUE, "ok")
        ELSE IF found.ok /\ found.val THEN Ensured(store, FALSE, "ok")
        ELSE Ensured(store, FALSE, "uncaught")

\* voltage_training_working.py lines 26-33: the bare except of line 30 covers
\* create_experiment only
WorkingVoltageTrainer_init(store, up) ==
    LET name == ExperimentName("WorkingVoltageTrainer")
        made == mlflow_create_experiment(store, name, up)
        after == IF made.ok THEN made.val ELSE store
        set == mlflow_set_experiment(after, name, up)
    IN  IF set.ok THEN Ensured(set.val, made.ok, "ok")
        ELSE Ensured(store, FALSE, "uncaught")

ExpIdle ==
    /\ exp_pc = "idle"
    /\ exp_script = "none"
    /\ exp_store = <<>>
    /\ exp_history = <<>>

\* the server always holds the experiment "Default"; an earlier session may
\* have left the script's experiment
ExpInit ==
    /\ exp_pc = "ready"
    /\ exp_script \in ExpScripts
    /\ exp_store \in {<<"Default">>, <<"Default", ExperimentName(exp_script)>>}
    /\ exp_history = <<>>

\* the script is started once more; the server is reachable during this
\* invocation or it is not
ExpInvoke ==
    /\ exp_pc = "ready"
    /\ Len(exp_history) < MaxInvocations
    /\ \E up \in BOOLEAN :
           exp_history' = Append(exp_history,
               [up |-> up,
                existed |-> HasExperiment(exp_store, ExperimentName(exp_script)),
                created |-> FALSE, outcome |-> "running", run |-> "none"])
    /\ exp_pc' = "ensure"
    /\ UNCHANGED <<exp_script, exp_store>>
    /\ UNCHANGED <<varsB64, varsTpl, varsVer, varsPoll, varsCfg, varsScr, varsDep, varsTrn, varsAuth, varsGen, varsSel, varsArt, varsStg>>

\* the create-or-reuse step of the script
ExpEnsure ==
    /\ exp_pc = "ensure"
    /\ LET n == Len(exp_history)
           up == exp_history[n].up
           r == CASE exp_script = "simple_test" -> simple_test_experiment(exp_store, up)
                  [] exp_script = "train_model" -> train_model_experiment(exp_store, up)
                  [] OTHER -> WorkingVoltageTrainer_init(exp_store, up)
       IN  /\ exp_store' = r.store
           /\ exp_history' = [exp_history EXCEPT ![n].created = r.created,
                                                 ![n].outcome = r.outcome]
           /\ exp_pc' = IF r.outcome = "ok" THEN "start_run" ELSE "ready"
    /\ UNCHANGED exp_script
    /\ UNCHANGED <<varsB64, varsTpl, varsVer, varsPoll, varsCfg, varsScr, varsDep, varsTrn, varsAuth, varsGen, varsSel, varsArt, varsStg>>

\* simple_test.py line 57, training.py line 56, voltage_training_working.py
\* line 100: the run starts in the script's experiment, and the script ends
ExpStartRun ==
    /\ exp_pc = "start_run"
    /\ exp_history' = [exp_history EXCEPT
                          ![Len(exp_history)].run = ExperimentName(exp_script),
                          ![Len(exp_history)].outcome = "done"]
    /\ exp_pc' = "ready"
    /\ UNCHANGED <<exp_script, exp_store>>
    /\ UNCHANGED <<varsB64, varsTpl, varsVer, varsPoll, varsCfg, varsScr, varsDep, varsTrn, varsAuth, varsGen, varsSel, varsArt, varsStg>>

----------------------------------------------------------------------------
(* deploy.py: main *)

\* line 58
envs == <<"dev", "prod">>

\* the file name "mlflow-<kind>-template.yaml"
TemplateName(kind) ==
    <<"m", "l", "f", "l", "o", "w", "-">> \o kind
        \o <<"-", "t", "e", "m", "p", "l", "a", "t", "e", ".", "y", "a", "m", "l">>

\* lines 70-76
base_templates == <<
    TemplateName(<<"d", "e", "p", "l", "o", "y", "m", "e", "n", "t">>),
    TemplateName(<<"s", "e", "r", "v", "i", "c", "e">>),
    TemplateName(<<"p", "v">>),
    TemplateName(<<"p", "v", "c">>),
    TemplateName(<<"p", "o", "s", "t", "g", "r", "e", "s", "-", "s", "e", "c", "r", "e", "t">>) >>

\* line 80
ingress_template == TemplateName(<<"i", "n", "g", "r", "e", "s", "s">>)

\* the truth value Python gives a configuration value: None, "" and 0 are false
py_truthy(v) ==
    CASE v.t = "str" -> v.s # <<>>
      [] v.t = "int" -> v.n # 0
      [] OTHER -> FALSE

\* seeded fault in template_files: the Ingress template is always listed
template_files_always_ingress(cfg) == Append(base_templates, ingress_template)

\* lines 70-81: config.get('MLFLOW_PATH') is None for an absent key
template_files(cfg) ==
    IF MLFLOW_PATH \in DOMAIN cfg /\ py_truthy(cfg[MLFLOW_PATH])
    THEN Append(base_templates, ingress_template)
    ELSE base_templates

\* str.replace(old, new): every occurrence, from the left, without overlap
RECURSIVE str_replace(_, _, _)
str_replace(s, old, new) ==
    IF Len(s) < Len(old) THEN s
    ELSE IF SubSeq(s, 1, Len(old)) = old
         THEN new \o str_replace(Drop(s, Len(old)), old, new)
         ELSE <<Head(s)>> \o str_replace(Tail(s), old, new)

\* seeded fault in output_dir: one directory for both environments
output_dir_shared(env) == <<"generated">>

\* line 66: script_dir / env / "generated"
output_dir(env) == <<env, "generated">>

\* line 86
output_name(tfile) ==
    str_replace(tfile, <<"-", "t", "e", "m", "p", "l", "a", "t", "e">>, <<>>)

\* process_template, lines 26-44: the text it would write, or the exception
process_template(content, cfg) ==
    LET subs == prepare_substitutions(cfg)
    IN  IF subs.ok THEN substitute(content, subs.val) ELSE subs

\* seeded fault in dict_copy: substitutions = config, the two names are bound
\* to one dict object
dict_copy_same_object(d) == [same_object |-> TRUE, d |-> d]

\* line 33, config.copy(): a new dict object holding the same items
dict_copy(d) == [same_object |-> FALSE, d |-> d]

\* lines 36-41 as far as they get: the dict after the item assignments made
\* before the first one that raises (all six when none does)
RECURSIVE stored_entries(_, _, _)
stored_entries(subs, cfg, i) ==
    IF i > Len(PgKeys) THEN subs
    ELSE IF PgKeys[i] \notin DOMAIN cfg THEN subs
    ELSE LET enc == base64_encode(cfg[PgKeys[i]]) IN
         IF ~enc.ok THEN subs
         ELSE stored_entries(DictSet(subs, PgKeys[i] \o B64Suffix, StrVal(enc.val)), cfg, i + 1)

\* process_template, lines 33-44: the dict object the caller passed as config,
\* as it is when process_template returns or raises. The item assignments go
\* to the object the name substitutions is bound to; Template.substitute only
\* reads its mapping.
config_after_process_template(cfg) ==
    LET substitutions_obj == dict_copy(cfg)
    IN  IF substitutions_obj.same_object
        THEN stored_entries(substitutions_obj.d, cfg, 1)
        ELSE cfg

\* the configuration file of an environment: the database fields, the
\* namespace of the environment, and MLFLOW_PATH with value path, or absent
\* when path is not a value
DeployConfig(env, path, omitted) ==
    LET ns == IF env = "dev" THEN <<"d", "e", "v">> ELSE <<"p", "r", "o", "d">>
        full == [FullConfig(StrVal(<<"p", "w">>), IntVal(5432))
                    EXCEPT ![NAMESPACE] = StrVal(ns)]
    IN  IF path.t = "absent" THEN Without(full, omitted \cup {MLFLOW_PATH})
        ELSE Without([full EXCEPT ![MLFLOW_PATH] = path], omitted)

DeployConfigs(env) ==
    {DeployConfig(env, path, omitted) :
        path \in {[NoneVal EXCEPT !.t = "absent"], NoneVal, StrVal(<<>>),
                  StrVal(<<"/", "m", "l">>)},
        omitted \in {{}, {PG_SCHEMA}}}

\* the templates directory: at most one of the six files is missing; the
\* deployment template refers to $MLFLOW_PATH or does not
TemplateDirs ==
    LET names == {base_templates[i] : i \in 1..Len(base_templates)} \cup {ingress_template}
        plain == Flatten(<<Lit(<<"n", ":">>), Named(NAMESPACE)>>)
        secret == Flatten(<<Named(PG_SCHEMA \o B64Suffix), Lit(<<":">>), Braced(NAMESPACE)>>)
        routed == Flatten(<<Braced(NAMESPACE), Named(MLFLOW_PATH)>>)
    IN  {[t \in names |->
            IF t \in missing THEN NoFile
            ELSE IF t = ingress_template THEN File(routed)
            ELSE IF t = base_templates[1] THEN File(deployment)
            ELSE IF t = base_templates[5] THEN File(secret)
            ELSE File(plain)] :
         missing \in {{}} \cup {{t} : t \in names}, deployment \in {plain, routed}}

DepIdle ==
    /\ dep_pc = "idle"
    /\ dep_env = "none"
    /\ dep_templates = <<>>
    /\ dep_configs = <<>>
    /\ dep_config = <<>>
    /\ dep_files = <<>>
    /\ dep_k = 0
    /\ dep_writes = <<>>
    /\ dep_warnings = <<>>

DepInit ==
    /\ dep_pc = "load"
    /\ dep_env = envs[1]
    /\ dep_templates \in TemplateDirs
    /\ \E dev \in DeployConfigs("dev"), prod \in DeployConfigs("prod") :
           dep_configs = [e \in {"dev", "prod"} |-> IF e = "dev" THEN dev ELSE prod]
    /\ dep_config = <<>>
    /\ dep_files = <<>>
    /\ dep_k = 0
    /\ dep_writes = <<>>
    /\ dep_warnings = <<>>

\* lines 59-81: the configuration of the environment is loaded and the list
\* of templates is built
DeployLoadConfig ==
    /\ dep_pc = "load"
    /\ dep_config' = dep_configs[dep_env]
    /\ dep_files' = template_files(dep_configs[dep_env])
    /\ dep_k' = 1
    /\ dep_pc' = "templates"
    /\ UNCHANGED <<dep_env, dep_templates, dep_configs, dep_writes, dep_warnings>>
    /\ UNCHANGED <<varsB64, varsTpl, varsVer, varsPoll, varsCfg, varsScr, varsExp, varsTrn, varsAuth, varsGen, varsSel, varsArt, varsStg>>

\* seeded fault in template_path_exists: the file is not looked for
template_path_exists_unchecked(dir, tfile) == TRUE

\* line 85: template_path.exists()
template_path_exists(dir, tfile) == dir[tfile].exists

\* lines 83-89, one template: a missing template is warned about and passed
\* over; an exception in process_template is not caught and ends main
DeployTemplate ==
    /\ dep_pc = "templates"
    /\ dep_k <= Len(dep_files)
    /\ LET t == dep_files[dep_k]
           r == process_template(dep_templates[t].text, dep_config)
       IN  IF ~template_path_exists(dep_templates, t)
           THEN /\ dep_warnings' = Append(dep_warnings, <<dep_env, t>>)
                /\ dep_k' = dep_k + 1
                /\ UNCHANGED <<dep_pc, dep_writes, dep_config>>
           ELSE IF r.ok
           THEN /\ dep_writes' = Append(dep_writes,
                       [env |-> dep_env, template |-> t, dir |-> output_dir(dep_env),
                        name |-> output_name(t), text |-> r.val])
                /\ dep_config' = config_after_process_template(dep_config)
                /\ dep_k' = dep_k + 1
                /\ UNCHANGED <<dep_pc, dep_warnings>>
           ELSE /\ dep_pc' = "raised"
                /\ dep_config' = config_after_process_template(dep_config)
                /\ UNCHANGED <<dep_k, dep_writes, dep_warnings>>
    /\ UNCHANGED <<dep_env, dep_templates, dep_configs, dep_files>>
    /\ UNCHANGED <<varsB64, varsTpl, varsVer, varsPoll, varsCfg, varsScr, varsExp, varsTrn, varsAuth, varsGen, varsSel, varsArt, varsStg>>

\* the list is exhausted: the next environment of line 58, or lines 91-99
DeployNextEnv ==
    /\ dep_pc = "templates"
    /\ dep_k > Len(dep_files)
    /\ IF dep_env = envs[1]
       THEN dep_env' = envs[2] /\ dep_pc' = "load"
       ELSE dep_pc' = "done" /\ UNCHANGED dep_env
    /\ UNCHANGED <<dep_templates, dep_configs, dep_config, dep_files, dep_k, dep_writes,
                   dep_warnings>>
    /\ UNCHANGED <<varsB64, varsTpl, varsVer, varsPoll, varsCfg, varsScr, varsExp, varsTrn, varsAuth, varsGen, varsSel, varsArt, varsStg>>

----------------------------------------------------------------------------
(* training.py: run_multiple_experiments and train_model *)

\* line 213
models_to_test == <<"random_forest", "logistic_regression">>

\* lines 59-77: the classifier the branches bind to the local variable model,
\* with the parameters they log; no branch is taken for any other model_type
\* and model stays unbound
choose_model(mtype) ==
    CASE mtype = "random_forest" ->
            [model |-> "RandomForestClassifier",
             params |-> <<"model_type", "n_estimators", "max_depth">>]
      [] mtype = "logstic_regression" ->
            [model |-> "LogisticRegression", params |-> <<"model_type", "C">>]
      [] OTHER -> [model |-> "unbound", params |-> <<>>]

\* line 227, max(results, key=results.get) over the dict in insertion order:
\* the first key that has the highest value
best_model(res) ==
    LET top == CHOOSE i \in 1..Len(res) :
                   /\ \A j \in 1..Len(res) : res[j][2] <= res[i][2]
                   /\ \A j \in 1..(i - 1) : res[j][2] < res[i][2]
    IN  res[top][1]

\* the artifacts of lines 143-185 in the order they are logged for a model
\* type: the feature importance plot is made for random_forest only
artifacts_of(mtype) ==
    (IF mtype = "random_forest" THEN <<"feature_importance.png">> ELSE <<>>)
        \o <<"confusion_matrix.png", "sample_predictions.csv", "model_summary.txt">>

TrnIdle ==
    /\ trn_pc = "idle"
    /\ trn_k = 0
    /\ trn_store = <<>>
    /\ trn_runs = <<>>
    /\ trn_results = <<>>
    /\ trn_best = "none"

\* the server holds the experiment ML_Experiments already or it does not
TrnInit ==
    /\ trn_pc = "next"
    /\ trn_k = 1
    /\ trn_store \in {<<"Default">>, <<"Default", ExperimentName("train_model")>>}
    /\ trn_runs = <<>>
    /\ trn_results = <<>>
    /\ trn_best = "none"

\* the head of the loop of line 216. With a model type left, train_model is
\* entered: the experiment is created or found (lines 37-43), the run is
\* started in it and the parameters of lines 59-82 are logged.
\* With none left, lines 222-228 report the best model
TrainLoop ==
    /\ trn_pc = "next"
    /\ IF trn_k <= Len(models_to_test)
       THEN LET mtype == models_to_test[trn_k] IN
            /\ trn_store' = train_model_experiment(trn_store, TRUE).store
            /\ trn_runs' = Append(trn_runs,
                   [type |-> mtype, status |-> "RUNNING", model |-> choose_model(mtype).model,
                    created_experiment |-> train_model_experiment(trn_store, TRUE).created,
                    params |-> choose_model(mtype).params
                                  \o <<"train_samples", "test_samples", "n_features">>,
                    accuracy |-> -1, artifacts |-> <<>>])
            /\ trn_pc' = "fit"
            /\ UNCHANGED trn_best
       ELSE /\ trn_best' = best_model(trn_results)
            /\ trn_pc' = "done"
            /\ UNCHANGED <<trn_store, trn_runs>>
    /\ UNCHANGED <<trn_k, trn_results>>
    /\ UNCHANGED <<varsB64, varsTpl, varsVer, varsPoll, varsCfg, varsScr, varsExp, varsDep, varsAuth, varsGen, varsSel, varsArt, varsStg>>

\* line 86: model.fit raises UnboundLocalError when no branch bound model;
\* the exception leaves the with block, which ends the run as FAILED, and
\* nothing catches it
TrainFit ==
    /\ trn_pc = "fit"
    /\ IF trn_runs[Len(trn_runs)].model = "unbound"
       THEN /\ trn_runs' = [trn_runs EXCEPT ![Len(trn_runs)].status = "FAILED"]
            /\ trn_pc' = "raised"
       ELSE /\ trn_pc' = "evaluate"
            /\ UNCHANGED trn_runs
    /\ UNCHANGED <<trn_k, trn_store, trn_results, trn_best>>
    /\ UNCHANGED <<varsB64, varsTpl, varsVer, varsPoll, varsCfg, varsScr, varsExp, varsDep, varsAuth, varsGen, varsSel, varsArt, varsStg>>

\* lines 89-102: the accuracy the fitted model reaches on the test split, in
\* steps of 1 / MaxAccuracy, is logged
TrainEvaluate ==
    /\ trn_pc = "evaluate"
    /\ \E accuracy \in 0..MaxAccuracy :
           trn_runs' = [trn_runs EXCEPT ![Len(trn_runs)].accuracy = accuracy]
    /\ trn_pc' = "artifacts"
    /\ UNCHANGED <<trn_k, trn_store, trn_results, trn_best>>
    /\ UNCHANGED <<varsB64, varsTpl, varsVer, varsPoll, varsCfg, varsScr, varsExp, varsDep, varsAuth, varsGen, varsSel, varsArt, varsStg>>

\* lines 124-207: the artifacts are logged until one log_artifact raises (the
\* except of line 188 only prints), the last two parameters are logged, the
\* run ends and train_model returns; line 220 stores the accuracy
TrainArtifacts ==
    /\ trn_pc = "artifacts"
    /\ LET run == trn_runs[Len(trn_runs)] IN
       \E logged \in 0..Len(artifacts_of(run.type)) :
           trn_runs' = [trn_runs EXCEPT
               ![Len(trn_runs)].artifacts = SubSeq(artifacts_of(run.type), 1, logged),
               ![Len(trn_runs)].params = run.params \o <<"model_saved", "model_class">>,
               ![Len(trn_runs)].status = "FINISHED"]
    /\ trn_results' = Append(trn_results,
                             <<trn_runs[Len(trn_runs)].type, trn_runs[Len(trn_runs)].accuracy>>)
    /\ trn_k' = trn_k + 1
    /\ trn_pc' = "next"
    /\ UNCHANGED <<trn_store, trn_best>>
    /\ UNCHANGED <<varsB64, varsTpl, varsVer, varsPoll, varsCfg, varsScr, varsExp, varsDep, varsAuth, varsGen, varsSel, varsArt, varsStg>>

----------------------------------------------------------------------------
(* generate-auth.py: get_working_htpasswd_hash and create_secret_yaml *)

\* the hash text of line 16, after "{username}:"
working_hash ==
    <<"$", "6", "$", "K", "5", "Y", "l", "E", "e", "2", "Q", "h", "w", "1",
      "k", "L", "s", "y", "S", "$", "N", "V", "L", "H", "Y", "8", "6", "M",
      "e", "M", "b", "c", "3", "J", ".", "9", "3", "1", "L", "E", "A", "A",
      "0", "H", "2", "n", "b", "X", "D", "h", "M", "l", "l", "g", "0", "z",
      "W", "R", "P", "h", "r", "7", "y", "O", "4", "/", "9", "v", "h", "H",
      "3", "9", "u", "d", "T", "1", "4", "q", "W", "o", "o", "0", "v", "x",
      "D", "i", "i", "Q", "m", "k", "R", "L", "f", "T", "4", "O", "J", "N",
      "7", "o", "A", "t", "W", "/", "2", "1">>

\* line 16: the f-string uses username only
get_working_htpasswd_hash(username, password) == username \o <<":">> \o working_hash

\* str.encode('utf-8') and base64.b64encode of line 38, computed 24 elements
\* at a time: 24 is a multiple of three, so the encodings of the pieces make
\* up the encoding of the whole
RECURSIVE Utf8EncodeLong(_)
Utf8EncodeLong(s) ==
    IF Len(s) <= 24 THEN Utf8Encode(s)
    ELSE Utf8Encode(SubSeq(s, 1, 24)) \o Utf8EncodeLong(Drop(s, 24))

RECURSIVE B64EncodeLong(_)
B64EncodeLong(bs) ==
    IF Len(bs) <= 24 THEN B64EncodeBytes(bs)
    ELSE B64EncodeBytes(SubSeq(bs, 1, 24)) \o B64EncodeLong(Drop(bs, 24))

\* lines 30-52: the fields of the secret that is written; auth is the base64
\* text of the UTF-8 bytes of the htpasswd line
create_secret_yaml(username, password, secret_name, namespace) ==
    [name |-> secret_name, namespace |-> namespace,
     auth |-> B64EncodeLong(Utf8EncodeLong(get_working_htpasswd_hash(username, password)))]

AuthUsernames == {<<"m", "l", "o", "p", "s">>, <<"a", "d", "m", "i", "n">>, <<"u">>}
AuthPasswords == {<<"m", "l", "o", "p", "s", "u", "s", "e", "r">>, <<"s", "3", "c", "r", "e", "t">>,
                  <<"p", "w">>, <<>>}

AuthIdle ==
    /\ auth_pc = "idle"
    /\ auth_calls = <<>>
    /\ auth_file = NoFile

AuthInit ==
    /\ auth_pc = "ready"
    /\ auth_calls = <<>>
    /\ auth_file = NoFile

\* one call of create_secret_yaml with the secret name, the namespace and the
\* output file main uses (lines 130-132): the file is overwritten (lines 56-57)
CreateSecretYaml ==
    /\ auth_pc = "ready"
    /\ Len(auth_calls) < MaxCalls
    /\ \E username \in AuthUsernames, password \in AuthPasswords :
           LET secret == create_secret_yaml(username, password, "basic-auth-secret",
                                            "smart-dc-dev")
           IN  /\ auth_calls' = Append(auth_calls,
                      [username |-> username, password |-> password, auth |-> secret.auth])
               /\ auth_file' = File(secret.auth)
    /\ UNCHANGED auth_pc
    /\ UNCHANGED <<varsB64, varsTpl, varsVer, varsPoll, varsCfg, varsScr, varsExp, varsDep, varsTrn, varsGen, varsSel, varsArt, varsStg>>

(* generate-auth.py: main *)

\* lines 128-129
USERNAME == <<"m", "l", "o", "p", "s">>
PASSWORD == <<"m", "l", "o", "p", "s", "u", "s", "e", "r">>

\* what running kubectl can come to: exit status 0, a non-zero exit status,
\* or no kubectl executable
KubectlOutcomes == {"rc0", "rc1", "FileNotFoundError"}

\* subprocess.run(..., check=True)
run_checked(outcome) ==
    CASE outcome = "rc0" -> Ok(TRUE)
      [] outcome = "rc1" -> Raise("CalledProcessError")
      [] OTHER -> Raise("FileNotFoundError")

\* lines 76-88: check=False, the answer is returncode == 0; without an
\* executable the answer is False
check_existing_secret(outcome) == outcome = "rc0"

\* seeded fault in delete_secret: the failure of kubectl delete is reported
\* but True is returned
delete_secret_ignore_failure(outcome) ==
    LET r == run_checked(outcome)
    IN  IF r.ok \/ r.err = "CalledProcessError" THEN Ok(TRUE) ELSE r

\* lines 90-101: only CalledProcessError is caught
delete_secret(outcome) ==
    LET r == run_checked(outcome)
    IN  IF r.ok THEN Ok(TRUE)
        ELSE IF r.err = "CalledProcessError" THEN Ok(FALSE)
        ELSE r

\* lines 103-111
apply_secret(outcome) ==
    LET r == run_checked(outcome)
    IN  IF r.ok THEN Ok(TRUE)
        ELSE IF r.err = "CalledProcessError" THEN Ok(FALSE)
        ELSE r

\* lines 113-121
verify_secret(outcome) ==
    LET r == run_checked(outcome)
    IN  IF r.ok THEN Ok(TRUE)
        ELSE IF r.err = "CalledProcessError" THEN Ok(FALSE)
        ELSE r

\* the whitespace str.strip() removes, of the characters the replies use
py_isspace(c) == c \in {" ", "TAB"}

\* str.strip()
RECURSIVE lstrip(_)
lstrip(s) == IF s # <<>> /\ py_isspace(Head(s)) THEN lstrip(Tail(s)) ELSE s

RECURSIVE rstrip(_)
rstrip(s) ==
    IF s # <<>> /\ py_isspace(s[Len(s)]) THEN rstrip(SubSeq(s, 1, Len(s) - 1)) ELSE s

strip(s) == rstrip(lstrip(s))

\* str.lower() on ASCII text
lower_char(c) ==
    IF \E i \in 34..59 : Ascii[i] = c THEN Chr(Ord(c) + 32) ELSE c

lower(s) == [i \in 1..Len(s) |-> lower_char(s[i])]

\* seeded fault in reply_is_yes: everything but an explicit 'n' replaces
reply_is_yes_unless_no(reply) == lower(strip(reply)) # <<"n">>

\* lines 153-154: input(...).strip().lower() == 'y'
reply_is_yes(reply) == lower(strip(reply)) = <<"y">>

\* what the user types at the prompt
Replies ==
    {<<"y">>, <<"Y">>, <<" ", "y", "TAB">>, <<"TAB", "Y", " ">>, <<"y", "e", "s">>,
     <<"y", " ", "y">>, <<"n">>, <<"N">>, <<>>, <<" ">>, <<"y", " ">>, <<" ", "Y">>,
     <<"Y", "E", "S">>, <<"n", "o">>, <<"1">>, <<"TAB", "y">>}

\* one step of main as it went: how the command or the call ended, whether
\* the step succeeded, and (found) the answer of the existence check
GenStep(step, outcome, ok, found) ==
    [step |-> step, outcome |-> outcome, ok |-> ok, found |-> found]

GenIdle ==
    /\ gen_pc = "idle"
    /\ gen_cluster = FALSE
    /\ gen_log = <<>>
    /\ gen_reply = <<>>
    /\ gen_yaml = NoFile
    /\ gen_out = <<>>
    /\ gen_exit = -1

\* the cluster holds the secret already, or not; 01-basic-auth-secret.yaml
\* is there from an earlier invocation, or not
GenInit ==
    /\ gen_pc = "kubectl"
    /\ gen_cluster \in BOOLEAN
    /\ gen_log = <<>>
    /\ gen_reply = <<>>
    /\ gen_yaml \in {NoFile, File(<<"o", "l", "d">>)}
    /\ gen_out = <<>>
    /\ gen_exit = -1

\* lines 134-143: kubectl version --client
GenCheckKubectl ==
    /\ gen_pc = "kubectl"
    /\ \E outcome \in KubectlOutcomes :
           LET r == run_checked(outcome)
           IN  /\ gen_log' = Append(gen_log, GenStep("version", outcome, r.ok, FALSE))
               /\ IF r.ok
                  THEN /\ gen_pc' = "generate"
                       /\ gen_out' = Append(gen_out, "kubectl is available")
                       /\ UNCHANGED gen_exit
                  ELSE /\ gen_pc' = "exited"
                       /\ gen_out' = Append(gen_out, "kubectl not found")
                       /\ gen_exit' = 1
    /\ UNCHANGED <<gen_cluster, gen_reply, gen_yaml>>
    /\ UNCHANGED <<varsB64, varsTpl, varsVer, varsPoll, varsCfg, varsScr, varsExp, varsDep, varsTrn, varsAuth, varsSel, varsArt, varsStg>>

\* lines 146-148: create_secret_yaml returns True, or open() of line 56
\* raises OSError, which nothing catches: the interpreter ends with status 1
GenCreateSecretYaml ==
    /\ gen_pc = "generate"
    /\ \E writable \in BOOLEAN :
           /\ gen_log' = Append(gen_log, GenStep("yaml",
                                    IF writable THEN "written" ELSE "OSError", writable, FALSE))
           /\ IF writable
              THEN /\ gen_yaml' = File(create_secret_yaml(USERNAME, PASSWORD,
                                      "basic-auth-secret", "smart-dc-dev").auth)
                   /\ gen_pc' = "check"
                   /\ UNCHANGED gen_exit
              ELSE /\ gen_pc' = "exited"
                   /\ gen_exit' = 1
                   /\ UNCHANGED gen_yaml
    /\ UNCHANGED <<gen_cluster, gen_reply, gen_out>>
    /\ UNCHANGED <<varsB64, varsTpl, varsVer, varsPoll, varsCfg, varsScr, varsExp, varsDep, varsTrn, varsAuth, varsSel, varsArt, varsStg>>

\* line 151: kubectl get secret ends with status 0 only when the secret is
\* there; it can fail for another reason when the secret is there
GenCheckExisting ==
    /\ gen_pc = "check"
    /\ \E outcome \in KubectlOutcomes :
           /\ outcome = "rc0" => gen_cluster
           /\ LET found == check_existing_secret(outcome)
              IN  /\ gen_log' = Append(gen_log, GenStep("exists", outcome, TRUE, found))
                  /\ gen_pc' = IF found THEN "prompt" ELSE "apply"
                  /\ gen_out' = IF found THEN Append(gen_out, "already exists") ELSE gen_out
    /\ UNCHANGED <<gen_cluster, gen_reply, gen_yaml, gen_exit>>
    /\ UNCHANGED <<varsB64, varsTpl, varsVer, varsPoll, varsCfg, varsScr, varsExp, varsDep, varsTrn, varsAuth, varsSel, varsArt, varsStg>>

\* lines 153-160: the reply is read; input() raises EOFError at the end of
\* the input, which nothing catches
GenPrompt ==
    /\ gen_pc = "prompt"
    /\ \/ \E reply \in Replies :
              /\ gen_reply' = reply
              /\ gen_log' = Append(gen_log, GenStep("prompt", "reply", TRUE, FALSE))
              /\ IF reply_is_yes(reply)
                 THEN /\ gen_pc' = "delete"
                      /\ UNCHANGED <<gen_out, gen_exit>>
                 ELSE /\ gen_pc' = "exited"
                      /\ gen_out' = Append(gen_out, "Deployment cancelled")
                      /\ gen_exit' = 1
       \/ /\ gen_log' = Append(gen_log, GenStep("prompt", "EOFError", FALSE, FALSE))
          /\ gen_pc' = "exited"
          /\ gen_exit' = 1
          /\ UNCHANGED <<gen_reply, gen_out>>
    /\ UNCHANGED <<gen_cluster, gen_yaml>>
    /\ UNCHANGED <<varsB64, varsTpl, varsVer, varsPoll, varsCfg, varsScr, varsExp, varsDep, varsTrn, varsAuth, varsSel, varsArt, varsStg>>

\* lines 155-157: kubectl delete secret
GenDelete ==
    /\ gen_pc = "delete"
    /\ \E outcome \in KubectlOutcomes :
           LET r == delete_secret(outcome)
           IN  /\ gen_log' = Append(gen_log, GenStep("delete", outcome, outcome = "rc0", FALSE))
               /\ gen_cluster' = IF outcome = "rc0" THEN FALSE ELSE gen_cluster
               /\ IF r.ok /\ r.val
                  THEN /\ gen_pc' = "apply"
                       /\ UNCHANGED <<gen_out, gen_exit>>
                  ELSE /\ gen_pc' = "exited"
                       /\ gen_out' = IF r.ok THEN Append(gen_out, "Deployment cancelled")
                                     ELSE gen_out
                       /\ gen_exit' = 1
    /\ UNCHANGED <<gen_reply, gen_yaml>>
    /\ UNCHANGED <<varsB64, varsTpl, varsVer, varsPoll, varsCfg, varsScr, varsExp, varsDep, varsTrn, varsAuth, varsSel, varsArt, varsStg>>

\* lines 163-166: kubectl apply -f 01-basic-auth-secret.yaml
GenApply ==
    /\ gen_pc = "apply"
    /\ \E outcome \in KubectlOutcomes :
           LET r == apply_secret(outcome)
           IN  /\ gen_log' = Append(gen_log, GenStep("apply", outcome, outcome = "rc0", FALSE))
               /\ gen_cluster' = IF outcome = "rc0" THEN TRUE ELSE gen_cluster
               /\ IF r.ok /\ r.val
                  THEN gen_pc' = "verify" /\ UNCHANGED gen_exit
                  ELSE gen_pc' = "exited" /\ gen_exit' = 1
    /\ UNCHANGED <<gen_reply, gen_yaml, gen_out>>
    /\ UNCHANGED <<varsB64, varsTpl, varsVer, varsPoll, varsCfg, varsScr, varsExp, varsDep, varsTrn, varsAuth, varsSel, varsArt, varsStg>>

\* lines 169-170: kubectl get secret, check=True
GenVerify ==
    /\ gen_pc = "verify"
    /\ \E outcome \in KubectlOutcomes :
           /\ outcome = "rc0" => gen_cluster
           /\ LET r == verify_secret(outcome)
              IN  /\ gen_log' = Append(gen_log, GenStep("verify", outcome, outcome = "rc0", FALSE))
                  /\ IF r.ok /\ r.val
                     THEN gen_pc' = "summary" /\ UNCHANGED gen_exit
                     ELSE gen_pc' = "exited" /\ gen_exit' = 1
    /\ UNCHANGED <<gen_cluster, gen_reply, gen_yaml, gen_out>>
    /\ UNCHANGED <<varsB64, varsTpl, varsVer, varsPoll, varsCfg, varsScr, varsExp, varsDep, varsTrn, varsAuth, varsSel, varsArt, varsStg>>

\* lines 172-189: the summary is printed and main returns
GenSummary ==
    /\ gen_pc = "summary"
    /\ gen_out' = Append(gen_out, "deployment complete")
    /\ gen_pc' = "exited"
    /\ gen_exit' = 0
    /\ UNCHANGED <<gen_cluster, gen_log, gen_reply, gen_yaml>>
    /\ UNCHANGED <<varsB64, varsTpl, varsVer, varsPoll, varsCfg, varsScr, varsExp, varsDep, varsTrn, varsAuth, varsSel, varsArt, varsStg>>

----------------------------------------------------------------------------
(* train_model of train_voltage_model.py and train_and_save of             *)
(* voltage_training_working.py, called with a model type                   *)

SelScripts == {"train_voltage_model", "voltage_training_working"}

\* model types a caller may pass
SelTypes ==
    {"random_forest", "gradient_boosting", "logistic_regression", "svm", "RandomForest", ""}

\* seeded fault in create_model: an unknown type falls back to the random
\* forest
create_model_default_fallback(script, mtype, has_config) ==
    IF script = "train_voltage_model" /\ ~has_config THEN Raise("KeyError")
    ELSE IF script = "train_voltage_model" /\ mtype = "gradient_boosting" THEN Ok(mtype)
    ELSE Ok("random_forest")

\* train_voltage_model.py lines 212-218: self.config['model_config'][model_type]
\* raises KeyError when the configuration has no entry for the type, then
\* the if/elif/else; voltage_training_working.py lines 92-97
create_model(script, mtype, has_config) ==
    IF script = "train_voltage_model"
    THEN IF ~has_config THEN Raise("KeyError")
         ELSE IF mtype \in {"random_forest", "gradient_boosting"} THEN Ok(mtype)
         ELSE Raise("ValueError")
    ELSE IF mtype = "random_forest" THEN Ok(mtype)
         ELSE Raise("ValueError")

\* the tracking calls inside the with block, by kind and in program order:
\* train_voltage_model.py lines 223-294, voltage_training_working.py
\* lines 108-281; guarded says that the call sits in a try that catches
\* every exception
RunCall(op, arg, guarded) == [op |-> op, arg |-> arg, guarded |-> guarded]

run_calls(script) ==
    IF script = "train_voltage_model"
    THEN << RunCall("log_param", "run parameters", FALSE),
            RunCall("log_param", "model hyperparameters", FALSE),
            RunCall("log_metric", "accuracy and time", FALSE),
            RunCall("log_metric", "feature importance", FALSE),
            RunCall("log_dict", "report, matrix, metadata", TRUE),
            RunCall("set_tag", "tags", FALSE) >>
    ELSE << RunCall("log_param", "run parameters", FALSE),
            RunCall("log_param", "model hyperparameters", FALSE),
            RunCall("log_metric", "accuracy and time", FALSE),
            RunCall("log_metric", "feature importance", FALSE),
            RunCall("log_metric", "class metrics", FALSE),
            RunCall("set_tag", "tags", FALSE),
            RunCall("log_dict", "classification_report.json", TRUE),
            RunCall("log_dict", "model_metadata.json", TRUE) >>

SelIdle ==
    /\ sel_pc = "idle"
    /\ sel_script = "none"
    /\ sel_type = "none"
    /\ sel_has_config = FALSE
    /\ sel_k = 0
    /\ sel_tracking = <<>>
    /\ sel_error = "none"

\* a call with a model type; the configuration of VoltageModelTrainer has an
\* entry for the type under model_config or has not (voltage_training_working.py
\* has no configuration)
SelInit ==
    /\ sel_pc = "called"
    /\ sel_script \in SelScripts
    /\ sel_type \in SelTypes
    /\ sel_has_config \in BOOLEAN
    /\ sel_script = "voltage_training_working" => ~sel_has_config
    /\ sel_k = 0
    /\ sel_tracking = <<>>
    /\ sel_error = "none"

\* train_voltage_model.py lines 184-209, voltage_training_working.py lines
\* 76-90: data, split, scaling; the reads of self.config can raise KeyError
SelPrepare ==
    /\ sel_pc = "called"
    /\ \E ok \in BOOLEAN :
           /\ ~ok => sel_script = "train_voltage_model"
           /\ sel_pc' = IF ok THEN "prepared" ELSE "raised"
           /\ sel_error' = IF ok THEN sel_error ELSE "KeyError"
    /\ UNCHANGED <<sel_script, sel_type, sel_has_config, sel_k, sel_tracking>>
    /\ UNCHANGED <<varsB64, varsTpl, varsVer, varsPoll, varsCfg, varsScr, varsExp, varsDep, varsTrn, varsAuth, varsGen, varsArt, varsStg>>

\* train_voltage_model.py lines 212-218, voltage_training_working.py lines 92-97
SelCreateModel ==
    /\ sel_pc = "prepared"
    /\ LET r == create_model(sel_script, sel_type, sel_has_config)
       IN  /\ sel_pc' = IF r.ok THEN "model" ELSE "raised"
           /\ sel_error' = r.err
    /\ UNCHANGED <<sel_script, sel_type, sel_has_config, sel_k, sel_tracking>>
    /\ UNCHANGED <<varsB64, varsTpl, varsVer, varsPoll, varsCfg, varsScr, varsExp, varsDep, varsTrn, varsAuth, varsGen, varsArt, varsStg>>

\* train_voltage_model.py line 221, voltage_training_working.py line 100:
\* mlflow.start_run, which the tracking server can refuse
SelStartRun ==
    /\ sel_pc = "model"
    /\ \E ok \in BOOLEAN :
           IF ok
           THEN /\ sel_tracking' = Append(sel_tracking, "start_run")
                /\ sel_pc' = "run"
                /\ sel_k' = 1
                /\ UNCHANGED sel_error
           ELSE /\ sel_pc' = "raised"
                /\ sel_error' = "MlflowException"
                /\ UNCHANGED <<sel_tracking, sel_k>>
    /\ UNCHANGED <<sel_script, sel_type, sel_has_config>>
    /\ UNCHANGED <<varsB64, varsTpl, varsVer, varsPoll, varsCfg, varsScr, varsExp, varsDep, varsTrn, varsAuth, varsGen, varsArt, varsStg>>

\* the next group of tracking calls of the with block: it is logged, or it
\* raises; a guarded call that raises is passed over, any other ends the run
\* as FAILED and leaves the function
SelRunStep ==
    /\ sel_pc = "run"
    /\ sel_k <= Len(run_calls(sel_script))
    /\ LET call == run_calls(sel_script)[sel_k] IN
       \E ok \in BOOLEAN :
           IF ok
           THEN /\ sel_tracking' = Append(sel_tracking, call.op)
                /\ sel_k' = sel_k + 1
                /\ UNCHANGED <<sel_pc, sel_error>>
           ELSE IF call.guarded
           THEN /\ sel_k' = sel_k + 1
                /\ UNCHANGED <<sel_pc, sel_error, sel_tracking>>
           ELSE /\ sel_tracking' = Append(sel_tracking, "end_run FAILED")
                /\ sel_pc' = "raised"
                /\ sel_error' = "MlflowException"
                /\ UNCHANGED sel_k
    /\ UNCHANGED <<sel_script, sel_type, sel_has_config>>
    /\ UNCHANGED <<varsB64, varsTpl, varsVer, varsPoll, varsCfg, varsScr, varsExp, varsDep, varsTrn, varsAuth, varsGen, varsArt, varsStg>>

\* the with block is left normally and the result is returned
SelEndRun ==
    /\ sel_pc = "run"
    /\ sel_k > Len(run_calls(sel_script))
    /\ sel_tracking' = Append(sel_tracking, "end_run FINISHED")
    /\ sel_pc' = "returned"
    /\ UNCHANGED <<sel_script, sel_type, sel_has_config, sel_k, sel_error>>
    /\ UNCHANGED <<varsB64, varsTpl, varsVer, varsPoll, varsCfg, varsScr, varsExp, varsDep, varsTrn, varsAuth, varsGen, varsArt, varsStg>>

(* test_mlflow_artifact.py and test_mlflow_artifact_windows.py: main *)

ArtScripts == {"test_mlflow_artifact", "test_mlflow_artifact_windows"}

\* line 72 ('/mlflow/artifacts'), line 75 of the Windows script ('Z:\\')
default_mount_root(script) ==
    IF script = "test_mlflow_artifact" THEN <<"/", "m", "l", "f", "l", "o", "w", "/", "a", "r", "t", "i", "f", "a", "c", "t", "s">>
    ELSE <<"Z", ":", "BACKSLASH">>

\* lines 100-102
DEFAULT_TRACKING_URI == <<"h", "t", "t", "p", ":", "/", "/", "4", ".", "1", "4", "4", ".", "1", "7", "3", ".", "9", "6", "/", "m", "l", "f", "l", "o", "w", "d", "e", "v">>
DEFAULT_USERNAME == <<"m", "l", "o", "p", "s">>
DEFAULT_PASSWORD == <<"m", "l", "o", "p", "s", "u", "s", "e", "r">>

\* line 55: the name of the file verify_mount_access writes
test_file(script) ==
    IF script = "test_mlflow_artifact" THEN "mount_test.txt" ELSE "mount_test_windows.txt"

\* line 148: the artifact main writes into the mount path
artifact_file(script) ==
    IF script = "test_mlflow_artifact" THEN "test-write-access.txt"
    ELSE "test-write-access-windows.txt"

\* str.startswith
startswith(s, prefix) == Len(s) >= Len(prefix) /\ SubSeq(s, 1, Len(prefix)) = prefix

\* os.environ.get(name): the value, or None for a variable that is not set
environ_get(environ, name) == environ[name]

\* lines 72-81
compute_mount_root(script, environ) ==
    LET artifact_root == environ_get(environ, "MLFLOW_DEFAULT_ARTIFACT_ROOT")
    IN  IF py_truthy(artifact_root)
        THEN IF startswith(artifact_root.s, <<"f", "i", "l", "e", ":", "/", "/">>)
             THEN Drop(artifact_root.s, 7)
             ELSE artifact_root.s
        ELSE default_mount_root(script)

\* what the mount path is like: not there, there but not writable, writable
\* with no room for the content, writable but files cannot be removed, or fine
MountStates == {"missing", "read_only", "no_space", "no_delete", "ok"}

\* seeded fault in verify_mount_access: the test file is not removed
verify_mount_access_no_cleanup(mount, files, name) ==
    CASE mount = "missing" -> [ok |-> FALSE, files |-> files]
      [] mount = "read_only" -> [ok |-> FALSE, files |-> files]
      [] mount = "no_space" -> [ok |-> FALSE, files |-> files \cup {name}]
      [] OTHER -> [ok |-> TRUE, files |-> files \cup {name}]

\* lines 47-66: the answer, and the files of the mount path afterwards.
\* open(..., 'w') creates the file; when write or os.remove raises the
\* handler of line 65 answers False and the file stays
verify_mount_access(mount, files, name) ==
    CASE mount = "missing" -> [ok |-> FALSE, files |-> files]
      [] mount = "read_only" -> [ok |-> FALSE, files |-> files]
      [] mount = "no_space" -> [ok |-> FALSE, files |-> files \cup {name}]
      [] mount = "no_delete" -> [ok |-> FALSE, files |-> files \cup {name}]
      [] OTHER -> [ok |-> TRUE, files |-> files \ {name}]

\* position of the first element of s, from position i on, that is in cs;
\* Len(s) + 1 when there is none
RECURSIVE find_any(_, _, _)
find_any(s, cs, i) ==
    IF i > Len(s) THEN Len(s) + 1
    ELSE IF s[i] \in cs THEN i
    ELSE find_any(s, cs, i + 1)

\* position of the last element of s that is in cs; 0 when there is none
RECURSIVE rfind_any(_, _, _)
rfind_any(s, cs, i) ==
    IF i < 1 THEN 0
    ELSE IF s[i] \in cs THEN i
    ELSE rfind_any(s, cs, i - 1)

\* the characters of a URL scheme: letters, digits, "+", "-" and "."
IsSchemeChar(c) == (IsIdChar(c) /\ c # "_") \/ c \in {"+", "-", "."}

\* urllib.parse.urlparse: scheme, netloc and path of a URL (query, fragment
\* and parameters are split off). The scheme is what stands before the first
\* ':' when that is a letter followed by scheme characters; the netloc is
\* what follows '//' up to the next '/', '?' or '#'
urlparse(url) ==
    LET colon == find_any(url, {":"}, 1)
        has_scheme == /\ 1 < colon /\ colon <= Len(url)
                      /\ IsIdStart(url[1]) /\ url[1] # "_"
                      /\ \A k \in 1..(colon - 1) : IsSchemeChar(url[k])
        rest1 == IF has_scheme THEN Drop(url, colon) ELSE url
        has_netloc == startswith(rest1, <<"/", "/">>)
        stop == find_any(rest1, {"/", "?", "#"}, 3)
        rest2 == IF has_netloc THEN Drop(rest1, stop - 1) ELSE rest1
        no_fragment == SubSeq(rest2, 1, find_any(rest2, {"#"}, 1) - 1)
        no_query == SubSeq(no_fragment, 1, find_any(no_fragment, {"?"}, 1) - 1)
        slash == rfind_any(no_query, {"/"}, Len(no_query))
        semi == find_any(no_query, {";"}, slash + 1)
    IN  [scheme |-> IF has_scheme THEN lower(SubSeq(url, 1, colon - 1)) ELSE <<>>,
         netloc |-> IF has_netloc THEN SubSeq(rest1, 3, stop - 1) ELSE <<>>,
         path |-> SubSeq(no_query, 1, semi - 1)]

\* the hostname attribute of a parse result: what follows the last '@' of
\* the netloc, up to the ':' of the port, in lower case
hostname(netloc) ==
    LET hostinfo == Drop(netloc, rfind_any(netloc, {"@"}, Len(netloc)))
    IN  lower(SubSeq(hostinfo, 1, find_any(hostinfo, {":"}, 1) - 1))

\* lines 93-102: the tracking URI and the credentials main goes on with
select_tracking(environ) ==
    IF py_truthy(environ_get(environ, "MLFLOW_TRACKING_URI"))
    THEN [uri |-> environ_get(environ, "MLFLOW_TRACKING_URI").s,
          username |-> environ_get(environ, "MLFLOW_USERNAME"),
          password |-> environ_get(environ, "MLFLOW_PASSWORD")]
    ELSE [uri |-> DEFAULT_TRACKING_URI,
          username |-> StrVal(DEFAULT_USERNAME),
          password |-> StrVal(DEFAULT_PASSWORD)]

\* line 114: if USERNAME and PASSWORD
uses_auth(username, password) == py_truthy(username) /\ py_truthy(password)

\* lines 114-124: the URI handed to mlflow.set_tracking_uri
tracking_uri_to_set(sel) ==
    IF uses_auth(sel.username, sel.password)
    THEN LET parsed_url == urlparse(sel.uri)
         IN  <<"h", "t", "t", "p", ":", "/", "/">> \o PyStr(sel.username) \o <<":">> \o PyStr(sel.password)
                 \o <<"@">> \o parsed_url.netloc \o parsed_url.path
    ELSE sel.uri

\* values of the environment variables the mains read
ArtifactRoots == {NoneVal, StrVal(<<"f", "i", "l", "e", ":", "/", "/", "/", "m", "n", "t", "/", "a">>), StrVal(<<"/", "d", "a", "t", "a">>)}
TrackingUris == {NoneVal, StrVal(<<>>), StrVal(<<"h", "t", "t", "p", ":", "/", "/", "h", "/", "p">>), StrVal(<<"h", "t", "t", "p", "s", ":", "/", "/", "H", ":", "5", "0", "0", "0", "/", "p", "/", "q", "?", "x", "=", "1">>)}
Usernames == {NoneVal, StrVal(<<>>), StrVal(<<"u">>)}
EnvPasswords == {NoneVal, StrVal(<<>>), StrVal(<<"p", "w">>), StrVal(<<"p", "/", "w">>)}

ArtIdle ==
    /\ art_pc = "idle"
    /\ art_script = "none"
    /\ art_environ = <<>>
    /\ art_mount = "none"
    /\ art_files = {}
    /\ mount_root = <<>>
    /\ art_creds = <<>>
    /\ art_uri = NoneVal
    /\ art_ops = <<>>
    /\ art_exit = -1

\* the environment the script is started in, the state of the mount path,
\* and whether a test file of an earlier run lies there
ArtInit ==
    /\ art_pc = "start"
    /\ art_script \in ArtScripts
    /\ \E root \in ArtifactRoots, uri \in TrackingUris, u \in Usernames, p \in EnvPasswords :
           art_environ = [name \in {"MLFLOW_DEFAULT_ARTIFACT_ROOT", "MLFLOW_TRACKING_URI",
                                    "MLFLOW_USERNAME", "MLFLOW_PASSWORD"} |->
                             CASE name = "MLFLOW_DEFAULT_ARTIFACT_ROOT" -> root
                               [] name = "MLFLOW_TRACKING_URI" -> uri
                               [] name = "MLFLOW_USERNAME" -> u
                               [] OTHER -> p]
    /\ art_mount \in MountStates
    /\ art_files \in {{}, {test_file(art_script)}}
    /\ art_mount = "missing" => art_files = {}
    /\ mount_root = <<>>
    /\ art_creds = <<>>
    /\ art_uri = NoneVal
    /\ art_ops = <<>>
    /\ art_exit = -1

\* lines 72-81
ArtMountRoot ==
    /\ art_pc = "start"
    /\ mount_root' = compute_mount_root(art_script, art_environ)
    /\ art_pc' = "verify"
    /\ UNCHANGED <<art_script, art_environ, art_mount, art_files, art_creds, art_uri,
                   art_ops, art_exit>>
    /\ UNCHANGED <<varsB64, varsTpl, varsVer, varsPoll, varsCfg, varsScr, varsExp, varsDep, varsTrn, varsAuth, varsGen, varsSel, varsStg>>

\* lines 84-89
ArtVerifyMount ==
    /\ art_pc = "verify"
    /\ LET r == verify_mount_access(art_mount, art_files, test_file(art_script))
       IN  /\ art_files' = r.files
           /\ IF r.ok
              THEN art_pc' = "tracking" /\ UNCHANGED art_exit
              ELSE art_pc' = "exited" /\ art_exit' = 1
    /\ UNCHANGED <<art_script, art_environ, art_mount, mount_root, art_creds, art_uri, art_ops>>
    /\ UNCHANGED <<varsB64, varsTpl, varsVer, varsPoll, varsCfg, varsScr, varsExp, varsDep, varsTrn, varsAuth, varsGen, varsSel, varsStg>>

\* lines 93-127: the tracking URI is chosen and handed to the client, and
\* MLFLOW_DEFAULT_ARTIFACT_ROOT is set
ArtSetTrackingUri ==
    /\ art_pc = "tracking"
    /\ LET sel == select_tracking(art_environ)
       IN  /\ art_creds' = sel
           /\ art_uri' = StrVal(tracking_uri_to_set(sel))
    /\ art_ops' = Append(art_ops, "set_tracking_uri")
    /\ art_environ' = [art_environ EXCEPT !["MLFLOW_DEFAULT_ARTIFACT_ROOT"] =
                          StrVal(<<"f", "i", "l", "e", ":", "/", "/">> \o mount_root)]
    /\ art_pc' = "start_run"
    /\ UNCHANGED <<art_script, art_mount, art_files, mount_root, art_exit>>
    /\ UNCHANGED <<varsB64, varsTpl, varsVer, varsPoll, varsCfg, varsScr, varsExp, varsDep, varsTrn, varsAuth, varsGen, varsSel, varsStg>>

\* line 134: mlflow.start_run; an exception here is caught nowhere
ArtStartRun ==
    /\ art_pc = "start_run"
    /\ \E ok \in BOOLEAN :
           IF ok
           THEN /\ art_ops' = Append(art_ops, "start_run")
                /\ art_pc' = "run"
                /\ UNCHANGED art_exit
           ELSE /\ art_pc' = "exited"
                /\ art_exit' = 1
                /\ UNCHANGED art_ops
    /\ UNCHANGED <<art_script, art_environ, art_mount, art_files, mount_root, art_creds,
                   art_uri>>
    /\ UNCHANGED <<varsB64, varsTpl, varsVer, varsPoll, varsCfg, varsScr, varsExp, varsDep, varsTrn, varsAuth, varsGen, varsSel, varsStg>>

\* lines 138-145: the parameters and the metrics; an exception leaves the
\* with block, the run ends as FAILED and the interpreter with status 1
ArtLogRun ==
    /\ art_pc = "run"
    /\ \E ok \in BOOLEAN :
           IF ok
           THEN /\ art_ops' = art_ops \o <<"log_param", "log_metric">>
                /\ art_pc' = "write"
                /\ UNCHANGED art_exit
           ELSE /\ art_ops' = Append(art_ops, "end_run FAILED")
                /\ art_pc' = "exited"
                /\ art_exit' = 1
    /\ UNCHANGED <<art_script, art_environ, art_mount, art_files, mount_root, art_creds,
                   art_uri>>
    /\ UNCHANGED <<varsB64, varsTpl, varsVer, varsPoll, varsCfg, varsScr, varsExp, varsDep, varsTrn, varsAuth, varsGen, varsSel, varsStg>>

\* lines 148-154: the artifact file is written into the mount path, outside
\* the try of line 156
ArtWriteArtifact ==
    /\ art_pc = "write"
    /\ \E ok \in BOOLEAN :
           /\ art_files' = art_files \cup {artifact_file(art_script)}
           /\ IF ok
              THEN /\ art_pc' = "artifacts"
                   /\ UNCHANGED <<art_ops, art_exit>>
              ELSE /\ art_ops' = Append(art_ops, "end_run FAILED")
                   /\ art_pc' = "exited"
                   /\ art_exit' = 1
    /\ UNCHANGED <<art_script, art_environ, art_mount, mount_root, art_creds, art_uri>>
    /\ UNCHANGED <<varsB64, varsTpl, varsVer, varsPoll, varsCfg, varsScr, varsExp, varsDep, varsTrn, varsAuth, varsGen, varsSel, varsStg>>

\* lines 156-173: log_artifact, then log_dict, inside a try that catches
\* every exception
ArtLogArtifacts ==
    /\ art_pc = "artifacts"
    /\ \E logged \in {<<>>, <<"log_artifact">>, <<"log_artifact", "log_dict">>} :
           art_ops' = art_ops \o logged
    /\ art_pc' = "end"
    /\ UNCHANGED <<art_script, art_environ, art_mount, art_files, mount_root, art_creds,
                   art_uri, art_exit>>
    /\ UNCHANGED <<varsB64, varsTpl, varsVer, varsPoll, varsCfg, varsScr, varsExp, varsDep, varsTrn, varsAuth, varsGen, varsSel, varsStg>>

\* lines 176-190: the with block is left, main returns
ArtEndRun ==
    /\ art_pc = "end"
    /\ art_ops' = Append(art_ops, "end_run FINISHED")
    /\ art_pc' = "exited"
    /\ art_exit' = 0
    /\ UNCHANGED <<art_script, art_environ, art_mount, art_files, mount_root, art_creds,
                   art_uri>>
    /\ UNCHANGED <<varsB64, varsTpl, varsVer, varsPoll, varsCfg, varsScr, varsExp, varsDep, varsTrn, varsAuth, varsGen, varsSel, varsStg>>

----------------------------------------------------------------------------
(* artifact content staged in a temporary file: localtestazureblob/        *)
(* simple_test.py, localtestazureblob/test_mlflow_azure_blob.py and        *)
(* mlflow-samples/mlflow-citus-test/simple_artifact_test.py                *)

StgScripts == {"simple_test", "test_mlflow_azure_blob", "simple_artifact_test"}

TmpNames == {"json", "csv", "txt"}

\* a temporary file: whether its path exists, whether the handle is open, the
\* mode it was opened in, the chunks still in the handle's buffer and the
\* chunks that reached the path
NoTmpFile == [exists |-> FALSE, open |-> FALSE, mode |-> "", buffer |-> <<>>, disk |-> <<>>]

\* tempfile.NamedTemporaryFile(delete=False, mode=mode); the default mode is
\* the binary 'w+b'
NamedTemporaryFile(mode) ==
    [exists |-> TRUE, open |-> TRUE, mode |-> mode, buffer |-> <<>>, disk |-> <<>>]

\* seeded fault in file_write: a binary file takes text
file_write_any_mode(f, chunk) == Ok([f EXCEPT !.buffer = Append(@, chunk)])

\* f.write(text) and the writes json.dump makes: text goes to the buffer of a
\* text file; a binary file refuses it with TypeError
file_write(f, chunk) ==
    IF f.mode = "w+b" THEN Raise("TypeError")
    ELSE Ok([f EXCEPT !.buffer = Append(@, chunk)])

\* f.flush(): the buffer reaches the path
file_flush(f) == [f EXCEPT !.disk = @ \o f.buffer, !.buffer = <<>>]

\* f.close(), also at the end of the with block: flushes an open handle; a
\* closed handle stays as it is
file_close(f) == IF f.open THEN [file_flush(f) EXCEPT !.open = FALSE] ELSE f

\* DataFrame.to_csv(f.name): the content is written through the path by a
\* handle of its own
to_csv(f, chunk) == [f EXCEPT !.disk = @ \o <<chunk>>]

\* os.unlink(name)
unlink(f) == [f EXCEPT !.exists = FALSE]

\* one statement of a staging block: the call, the temporary file, its
\* argument, whether it stands inside the with block of the file, and the
\* handler around it: "outer" the try/except Exception of the function or
\* of the test, after which nothing of the staging follows; "pass" a handler
\* after which the script goes on with the next statement (the try/except:
\* pass around os.unlink, the try around log_dict); "none" no handler
St(op, file, arg, in_with, guard) ==
    [op |-> op, file |-> file, arg |-> arg, in_with |-> in_with, guard |-> guard]

\* a tracking call that stages nothing
Call(op, arg, guard) == St(op, "", arg, FALSE, guard)

\* simple_test.py lines 57-82, inside the try of line 41: log_artifact is
\* called inside the with block of the file
stage_simple_test == <<
    Call("start_run", "simple-test", "outer"),
    Call("log_param", "test_type", "outer"),
    Call("log_param", "timestamp", "outer"),
    Call("log_metric", "accuracy", "outer"),
    Call("log_metric", "precision", "outer"),
    Call("log_metric", "recall", "outer"),
    St("NamedTemporaryFile", "json", "w+b", FALSE, "outer"),
    St("write", "json", "test_data", TRUE, "outer"),
    St("log_artifact", "json", "test_results", TRUE, "outer"),
    St("with_exit", "json", "", FALSE, "outer"),
    St("unlink", "json", "", FALSE, "outer") >>

\* test_mlflow_azure_blob.py lines 78-86, 97-105 and 120-128
stage_azure_blob(file, write_op, chunk, dir) == <<
    St("NamedTemporaryFile", file, "w", FALSE, "outer"),
    St(write_op, file, chunk, TRUE, "outer"),
    St("flush", file, "", TRUE, "outer"),
    St("close", file, "", TRUE, "outer"),
    St("with_exit", file, "", FALSE, "outer"),
    St("log_artifact", file, dir, FALSE, "outer"),
    St("unlink", file, "", FALSE, "pass") >>

\* lines 58-128, inside the try of line 42
stage_test_mlflow_azure_blob ==
    << Call("start_run", "artifacts-run", "outer"),
       Call("log_param", "test_type", "outer"),
       Call("log_param", "timestamp", "outer") >>
    \o stage_azure_blob("json", "write", "json_data", "json_data")
    \o stage_azure_blob("csv", "to_csv", "csv_data", "csv_data")
    \o stage_azure_blob("txt", "write", "text_content", "text_data")

\* mlflow-citus-test/simple_artifact_test.py lines 24-56: the run is started
\* at module level with no handler around it; log_dict and the staging of
\* the text file each have a try of their own
stage_simple_artifact_test == <<
    Call("start_run", "", "none"),
    Call("log_param", "test_param", "none"),
    Call("log_metric", "test_metric", "none"),
    Call("log_dict", "test_message.json", "pass"),
    St("NamedTemporaryFile", "txt", "w", FALSE, "outer"),
    St("write", "txt", "test_line", TRUE, "outer"),
    St("write", "txt", "run_id_line", TRUE, "outer"),
    St("with_exit", "txt", "", FALSE, "outer"),
    St("log_artifact", "txt", "test_files", FALSE, "outer"),
    St("unlink", "txt", "", FALSE, "outer") >>

Staging(script) ==
    CASE script = "simple_test" -> stage_simple_test
      [] script = "test_mlflow_azure_blob" -> stage_test_mlflow_azure_blob
      [] OTHER -> stage_simple_artifact_test

\* the content a script means to stage in a file: the chunks of its writes
RECURSIVE content_upto(_, _, _)
content_upto(prog, file, i) ==
    IF i = 0 THEN <<>>
    ELSE content_upto(prog, file, i - 1) \o
         (IF prog[i].file = file /\ prog[i].op \in {"write", "to_csv"}
          THEN <<prog[i].arg>> ELSE <<>>)

full_content(script, file) == content_upto(Staging(script), file, Len(Staging(script)))

\* the outcome of a statement on its file when nothing outside the script
\* fails
run_statement(st, f) ==
    CASE st.op = "NamedTemporaryFile" -> Ok(NamedTemporaryFile(st.arg))
      [] st.op = "write" -> file_write(f, st.arg)
      [] st.op = "to_csv" -> Ok(to_csv(f, st.arg))
      [] st.op = "flush" -> Ok(file_flush(f))
      [] st.op \in {"close", "with_exit"} -> Ok(file_close(f))
      [] st.op = "unlink" -> Ok(unlink(f))
      [] OTHER -> Ok(f)

\* the calls that the file system or the tracking server can fail: to_csv,
\* log_artifact and os.unlink, and the flush of a buffer that holds content
\* (OSError, no space left), also the one close makes
may_fail(st, f) ==
    \/ st.op \in {"start_run", "log_param", "log_metric", "log_dict"}
    \/ st.op \in {"to_csv", "log_artifact", "unlink"}
    \/ st.op \in {"flush", "close", "with_exit"} /\ f.open /\ f.buffer # <<>>

\* the file after a close whose flush failed: closed, the buffer is lost
file_close_failed(f) == [f EXCEPT !.open = FALSE, !.buffer = <<>>]

\* the file when the with block is left on an exception of statement st: the
\* handle is closed, and the buffer reaches the path unless it was the flush
\* that failed
file_after_raise(st, f) ==
    IF ~st.in_with /\ st.op # "with_exit" THEN f
    ELSE IF st.op \in {"flush", "close", "with_exit"} THEN file_close_failed(f)
    ELSE file_close(f)

StgIdle ==
    /\ stg_pc = "idle"
    /\ stg_script = "none"
    /\ stg_i = 0
    /\ stg_files = [n \in TmpNames |-> NoTmpFile]
    /\ stg_logged = <<>>
    /\ stg_raised = <<>>

StgInit ==
    /\ stg_pc = "running"
    /\ stg_script \in StgScripts
    /\ stg_i = 1
    /\ stg_files = [n \in TmpNames |-> NoTmpFile]
    /\ stg_logged = <<>>
    /\ stg_raised = <<>>

\* the temporary file a statement works on
FileOf(st, files) == IF st.file \in TmpNames THEN files[st.file] ELSE NoTmpFile

\* the next statement completes; log_artifact uploads what is at the path
StgStep ==
    /\ stg_pc = "running"
    /\ stg_i <= Len(Staging(stg_script))
    /\ LET st == Staging(stg_script)[stg_i]
           f == FileOf(st, stg_files)
           out == run_statement(st, f)
       IN  /\ out.ok
           /\ stg_files' = IF st.file \in TmpNames
                           THEN [stg_files EXCEPT ![st.file] = out.val]
                           ELSE stg_files
           /\ stg_logged' =
                 CASE st.op = "log_artifact" ->
                         Append(stg_logged, [op |-> st.op, file |-> st.file,
                                             content |-> f.disk, open |-> f.open])
                   [] st.op \in {"log_param", "log_metric", "log_dict"} ->
                         Append(stg_logged, [op |-> st.op, file |-> "",
                                             content |-> <<st.arg>>, open |-> FALSE])
                   [] OTHER -> stg_logged
    /\ stg_i' = stg_i + 1
    /\ UNCHANGED <<stg_pc, stg_script, stg_raised>>
    /\ UNCHANGED <<varsB64, varsTpl, varsVer, varsPoll, varsCfg, varsScr, varsExp, varsDep, varsTrn, varsAuth, varsGen, varsSel, varsArt>>

\* the next statement raises. Inside the with block the file is closed on
\* the way out. After a "pass" handler the script goes on; the handler of
\* the function prints and nothing of the staging follows; with no handler
\* the exception ends the script
StgRaise ==
    /\ stg_pc = "running"
    /\ stg_i <= Len(Staging(stg_script))
    /\ LET st == Staging(stg_script)[stg_i]
           f == FileOf(st, stg_files)
       IN  /\ may_fail(st, f) \/ ~run_statement(st, f).ok
           /\ stg_raised' = Append(stg_raised, stg_i)
           /\ stg_files' = IF st.file \in TmpNames
                           THEN [stg_files EXCEPT ![st.file] = file_after_raise(st, f)]
                           ELSE stg_files
           /\ IF st.guard = "pass"
              THEN stg_i' = stg_i + 1 /\ UNCHANGED stg_pc
              ELSE stg_pc' = "finished" /\ UNCHANGED stg_i
    /\ UNCHANGED <<stg_script, stg_logged>>
    /\ UNCHANGED <<varsB64, varsTpl, varsVer, varsPoll, varsCfg, varsScr, varsExp, varsDep, varsTrn, varsAuth, varsGen, varsSel, varsArt>>

\* the staging is through and the script runs to its end
StgFinish ==
    /\ stg_pc = "running"
    /\ stg_i > Len(Staging(stg_script))
    /\ stg_pc' = "finished"
    /\ UNCHANGED <<stg_script, stg_i, stg_files, stg_logged, stg_raised>>
    /\ UNCHANGED <<varsB64, varsTpl, varsVer, varsPoll, varsCfg, varsScr, varsExp, varsDep, varsTrn, varsAuth, varsGen, varsSel, varsArt>>

----------------------------------------------------------------------------
(* Specifications *)

InitB64 == B64Init /\ TplIdle /\ VerIdle /\ PollIdle /\ CfgIdle /\ ScrIdle /\ ExpIdle /\ DepIdle /\ TrnIdle /\ AuthIdle /\ GenIdle /\ SelIdle /\ ArtIdle /\ StgIdle
NextB64 == B64Encode \/ B64Decode
SpecB64 == InitB64 /\ [][NextB64]_vars

InitTemplate == TplInit /\ B64Idle /\ VerIdle /\ PollIdle /\ CfgIdle /\ ScrIdle /\ ExpIdle /\ DepIdle /\ TrnIdle /\ AuthIdle /\ GenIdle /\ SelIdle /\ ArtIdle /\ StgIdle
NextTemplate == ReadTemplate \/ PrepareSubstitutions \/ Substitute \/ WriteOutput
SpecTemplate == InitTemplate /\ [][NextTemplate]_vars

InitVerify == VerInit /\ B64Idle /\ TplIdle /\ PollIdle /\ CfgIdle /\ ScrIdle /\ ExpIdle /\ DepIdle /\ TrnIdle /\ AuthIdle /\ GenIdle /\ SelIdle /\ ArtIdle /\ StgIdle
NextVerify == CheckArgs \/ RunTest \/ Summarize \/ VerExit
SpecVerify == InitVerify /\ [][NextVerify]_vars

\* requests.get returns or raises within its timeout and time.sleep(1)
\* returns: the single thread always takes its next step
InitPoll == PollInit /\ B64Idle /\ TplIdle /\ VerIdle /\ CfgIdle /\ ScrIdle /\ ExpIdle /\ DepIdle /\ TrnIdle /\ AuthIdle /\ GenIdle /\ SelIdle /\ ArtIdle /\ StgIdle
NextPoll ==
    \/ PollRequest \/ PollSleep \/ PollGiveUp
    \/ TrainerSetExperiment \/ TrainerTrainModel \/ TrainerMainExit
SpecPoll == InitPoll /\ [][NextPoll]_vars /\ WF_vars(NextPoll)

InitConfig == CfgInit /\ B64Idle /\ TplIdle /\ VerIdle /\ PollIdle /\ ScrIdle /\ ExpIdle /\ DepIdle /\ TrnIdle /\ AuthIdle /\ GenIdle /\ SelIdle /\ ArtIdle /\ StgIdle
NextConfig == LoadConfig \/ ReadSetting \/ TrainReturn
SpecConfig == InitConfig /\ [][NextConfig]_vars

InitScripts == ScrInit /\ B64Idle /\ TplIdle /\ VerIdle /\ PollIdle /\ CfgIdle /\ ExpIdle /\ DepIdle /\ TrnIdle /\ AuthIdle /\ GenIdle /\ SelIdle /\ ArtIdle /\ StgIdle
NextScripts == ScrStep \/ ScrRaise \/ ScrEnd
SpecScripts == InitScripts /\ [][NextScripts]_vars

InitExperiment == ExpInit /\ B64Idle /\ TplIdle /\ VerIdle /\ PollIdle /\ CfgIdle /\ ScrIdle /\ DepIdle /\ TrnIdle /\ AuthIdle /\ GenIdle /\ SelIdle /\ ArtIdle /\ StgIdle
NextExperiment == ExpInvoke \/ ExpEnsure \/ ExpStartRun
SpecExperiment == InitExperiment /\ [][NextExperiment]_vars

InitDeploy == DepInit /\ B64Idle /\ TplIdle /\ VerIdle /\ PollIdle /\ CfgIdle /\ ScrIdle /\ ExpIdle /\ TrnIdle /\ AuthIdle /\ GenIdle /\ SelIdle /\ ArtIdle /\ StgIdle
NextDeploy == DeployLoadConfig \/ DeployTemplate \/ DeployNextEnv
SpecDeploy == InitDeploy /\ [][NextDeploy]_vars

InitTrain == TrnInit /\ B64Idle /\ TplIdle /\ VerIdle /\ PollIdle /\ CfgIdle /\ ScrIdle /\ ExpIdle /\ DepIdle /\ AuthIdle /\ GenIdle /\ SelIdle /\ ArtIdle /\ StgIdle
NextTrain == TrainLoop \/ TrainFit \/ TrainEvaluate \/ TrainArtifacts
SpecTrain == InitTrain /\ [][NextTrain]_vars

InitAuth == AuthInit /\ B64Idle /\ TplIdle /\ VerIdle /\ PollIdle /\ CfgIdle /\ ScrIdle /\ ExpIdle /\ DepIdle /\ TrnIdle /\ GenIdle /\ SelIdle /\ ArtIdle /\ StgIdle
NextAuth == CreateSecretYaml
SpecAuth == InitAuth /\ [][NextAuth]_vars

InitGenerate == GenInit /\ B64Idle /\ TplIdle /\ VerIdle /\ PollIdle /\ CfgIdle /\ ScrIdle /\ ExpIdle /\ DepIdle /\ TrnIdle /\ AuthIdle /\ SelIdle /\ ArtIdle /\ StgIdle
NextGenerate ==
    \/ GenCheckKubectl \/ GenCreateSecretYaml \/ GenCheckExisting \/ GenPrompt
    \/ GenDelete \/ GenApply \/ GenVerify \/ GenSummary
SpecGenerate == InitGenerate /\ [][NextGenerate]_vars

InitModelType == SelInit /\ B64Idle /\ TplIdle /\ VerIdle /\ PollIdle /\ CfgIdle /\ ScrIdle /\ ExpIdle /\ DepIdle /\ TrnIdle /\ AuthIdle /\ GenIdle /\ ArtIdle /\ StgIdle
NextModelType == SelPrepare \/ SelCreateModel \/ SelStartRun \/ SelRunStep \/ SelEndRun
SpecModelType == InitModelType /\ [][NextModelType]_vars

InitArtifactMain == ArtInit /\ B64Idle /\ TplIdle /\ VerIdle /\ PollIdle /\ CfgIdle /\ ScrIdle /\ ExpIdle /\ DepIdle /\ TrnIdle /\ AuthIdle /\ GenIdle /\ SelIdle /\ StgIdle
NextArtifactMain ==
    \/ ArtMountRoot \/ ArtVerifyMount \/ ArtSetTrackingUri \/ ArtStartRun \/ ArtLogRun
    \/ ArtWriteArtifact \/ ArtLogArtifacts \/ ArtEndRun
SpecArtifactMain == InitArtifactMain /\ [][NextArtifactMain]_vars

InitStaging == StgInit /\ B64Idle /\ TplIdle /\ VerIdle /\ PollIdle /\ CfgIdle /\ ScrIdle /\ ExpIdle /\ DepIdle /\ TrnIdle /\ AuthIdle /\ GenIdle /\ SelIdle /\ ArtIdle
NextStaging == StgStep \/ StgRaise \/ StgFinish
SpecStaging == InitStaging /\ [][NextStaging]_vars

Init ==
    \/ InitB64 \/ InitTemplate \/ InitVerify \/ InitPoll \/ InitConfig \/ InitScripts
    \/ InitExperiment \/ InitDeploy \/ InitTrain \/ InitAuth \/ InitGenerate
    \/ InitModelType \/ InitArtifactMain \/ InitStaging
Next ==
    \/ NextB64 \/ NextTemplate \/ NextVerify \/ NextPoll \/ NextConfig \/ NextScripts
    \/ NextExperiment \/ NextDeploy \/ NextTrain \/ NextAuth \/ NextGenerate
    \/ NextModelType \/ NextArtifactMain \/ NextStaging
Spec == Init /\ [][Next]_vars

----------------------------------------------------------------------------
(* base64_encode: claims *)

\* C6 as stated: for every string and every integer value v that
\* base64_encode accepts, decoding base64_encode(v) returns v itself
C6_RoundTripReturnsValue ==
    (b64_pc = "decoded" /\ b64_value.t \in {"str", "int"})
        => /\ b64_decoded.ok
           /\ StrVal(b64_decoded.val) = b64_value

\* C6 amended: base64_encode accepts every string and every integer; decoding
\* its result returns v for a string v and the decimal text str(v), a string,
\* for an integer v
C6_RoundTripReturnsText ==
    /\ (b64_value.t \in {"str", "int"} => b64_pc # "raised")
    /\ (b64_pc = "decoded" =>
           /\ b64_decoded.ok
           /\ (b64_value.t = "str" => b64_decoded.val = b64_value.s)
           /\ (b64_value.t = "int" => b64_decoded.val = IntToStr(b64_value.n)))

\* an integer and a non-ASCII string have both gone through the round trip
C6_Witness ==
    /\ b64_pc = "decoded"
    /\ \/ b64_value = IntVal(5432)
       \/ b64_value = StrVal(<<"a", "e_acute", "$">>)

----------------------------------------------------------------------------
(* process_template: claims *)

Terminal == tpl_pc \in {"done", "raised"}

\* the names the template references
Placeholders ==
    {tpl_pieces[i].s : i \in {j \in 1..Len(tpl_pieces) : tpl_pieces[j].k \in {"named", "braced"}}}

B64Names == {k \o B64Suffix : k \in PgKeySet}
BaseKey(name) == SubSeq(name, 1, Len(name) - Len(B64Suffix))

WellFormed == \A i \in 1..Len(tpl_pieces) : tpl_pieces[i].k # "invalid"
HasEscape == \E i \in 1..Len(tpl_pieces) : tpl_pieces[i].k = "escaped"

\* the six PostgreSQL keys are present and hold strings or integers
PgPresent == \A k \in PgKeySet : k \in DOMAIN config /\ config[k].t \in {"str", "int"}

\* every referenced key is present in the configuration, a *_B64 name through
\* the key it is derived from
RefPresent ==
    \A name \in Placeholders :
        \/ name \in DOMAIN config
        \/ name \in B64Names /\ BaseKey(name) \in DOMAIN config

\* some referenced name has no entry in the substitution mapping
MissingRef == \E name \in Placeholders : name \notin (DOMAIN config \cup B64Names)

\* the text a piece of the template stands for
ExpectedPiece(p) ==
    CASE p.k = "lit" -> p.s
      [] p.k = "escaped" -> <<"$">>
      [] p.k \in {"named", "braced"} ->
            IF p.s \in B64Names
            THEN B64EncodeBytes(Utf8Encode(PyStr(config[BaseKey(p.s)])))
            ELSE PyStr(config[p.s])
      [] OTHER -> PieceText(p)

RECURSIVE Expected(_)
Expected(ps) == IF ps = <<>> THEN <<>> ELSE ExpectedPiece(Head(ps)) \o Expected(Tail(ps))

Contains(s, c) == \E i \in 1..Len(s) : s[i] = c

\* text holds a $name or ${name} token, read the way Template reads it
RECURSIVE HasPlaceholder(_)
HasPlaceholder(s) ==
    IF s = <<>> THEN FALSE
    ELSE IF Head(s) # "$" THEN HasPlaceholder(Tail(s))
    ELSE IF Len(s) >= 2 /\ s[2] = "$" THEN HasPlaceholder(Drop(s, 2))
    ELSE IF Len(s) >= 2 /\ IsIdStart(s[2]) THEN TRUE
    ELSE IF /\ Len(s) >= 3 /\ s[2] = "{" /\ IsIdStart(s[3])
            /\ Len(s) >= 3 + IdRun(Drop(s, 2)) /\ s[3 + IdRun(Drop(s, 2))] = "}" THEN TRUE
    ELSE HasPlaceholder(Tail(s))

\* a referenced plain value carries a "$" of its own
ValueHasDollar ==
    \E name \in Placeholders \ B64Names :
        name \in DOMAIN config /\ Contains(PyStr(config[name]), "$")

\* C1 as stated: for every template and every configuration holding all keys
\* the template references, process_template writes the template with every
\* placeholder replaced (base64 for the *_B64 names) and the output holds no
\* placeholder token
C1_AsStated ==
    (Terminal /\ RefPresent) =>
        /\ tpl_pc = "done"
        /\ output_file = File(Expected(tpl_pieces))
        /\ ~HasPlaceholder(output_file.text)

\* C1 amended: for every well-formed template and every configuration that
\* holds the six PG_* keys with string or integer values and all keys the
\* template references, process_template writes the template with every
\* placeholder replaced by str() of its value (base64 of it for the *_B64
\* names) and every $$ by $; the output holds a "$" only where a $$ escape or
\* a substituted value put one
C1_RenderedOutput ==
    (Terminal /\ WellFormed /\ PgPresent /\ RefPresent) =>
        /\ tpl_pc = "done"
        /\ output_file = File(Expected(tpl_pieces))
        /\ (~HasEscape /\ ~ValueHasDollar => ~Contains(output_file.text, "$"))

\* a plain and an encoded placeholder have been rendered into the output
C1_Witness ==
    /\ tpl_pc = "done"
    /\ tpl_pieces = <<Named(PG_PASSWORD \o B64Suffix), Braced(PG_PORT)>>
    /\ config[PG_PASSWORD] = StrVal(<<"p", "w", "e_acute">>)
    /\ output_file.text = <<"c", "H", "f", "D", "q", "Q", "=", "=", "5", "4", "3", "2">>

\* C5: a template that references a name with no entry in the substitution
\* mapping makes process_template raise, and the output file is left as it
\* was: not created, not modified, never holding partly substituted text
C5_AllOrNothing ==
    MissingRef =>
        /\ tpl_pc # "done"
        /\ output_file = output_before
        /\ (Terminal => tpl_pc = "raised" /\ tpl_error \in {"KeyError", "ValueError", "AttributeError"})

\* substitute itself raised KeyError after text before the missing name had
\* been scanned, with a file already in place
C5_Witness ==
    /\ tpl_pc = "raised"
    /\ tpl_error = "KeyError"
    /\ PgPresent
    /\ tpl_pieces = <<Named(PG_USER), Braced(NAMESPACE)>>
    /\ NAMESPACE \notin DOMAIN config
    /\ output_before.exists

\* C9 as stated: a configuration that holds every key the template references
\* always lets process_template succeed and write the output
C9_AsStated ==
    (Terminal /\ \A name \in Placeholders : name \in DOMAIN config) =>
        /\ tpl_pc = "done"
        /\ output_file.exists

\* C9 amended: process_template succeeds and writes the output exactly when
\* the template is well-formed, every name it references is a key of the
\* configuration or one of the six derived *_B64 names, and the configuration
\* holds the six PG_* keys with string or integer values; no other key is needed
C9_ExactPrecondition ==
    Terminal =>
        /\ tpl_pc = "done" <=>
              (WellFormed /\ PgPresent /\ \A name \in Placeholders :
                                              name \in (DOMAIN config \cup B64Names))
        /\ (tpl_pc = "done" => output_file = File(result))

\* success with a configuration that lacks keys the template does not use
C9_Witness ==
    /\ tpl_pc = "done"
    /\ Placeholders = {PG_PORT \o B64Suffix, PG_USER}
    /\ NAMESPACE \notin DOMAIN config
    /\ MLFLOW_PATH \notin DOMAIN config

----------------------------------------------------------------------------
(* test-deployment.py: claims *)

ValidArgs == Len(argv) = 1 /\ argv[1] \in {"dev", "prod"}

CountOf(seq, x) == Cardinality({i \in 1..Len(seq) : seq[i] = x})
SummaryLines(status) == Cardinality({i \in 1..Len(summary) : summary[i][2] = status})

\* C2: when exactly N of the five checks come out healthy (return True), the
\* summary reports N passes and 5-N failures, and the exit status is 0 if and
\* only if N = 5, and 1 otherwise
C2_SummaryCounts ==
    (ver_pc = "exited" /\ ValidArgs) =>
        LET N == CountOf(outcomes, "True") IN
        /\ Len(outcomes) = 5
        /\ passed = N
        /\ total = 5
        /\ SummaryLines("PASS") = N
        /\ SummaryLines("FAIL") = 5 - N
        /\ ver_exit = (IF N = 5 THEN 0 ELSE 1)

\* three of five checks healthy, one returned False and one raised
C2_Witness ==
    /\ ver_pc = "exited"
    /\ outcomes = <<"True", "True", "raised", "False", "True">>
    /\ passed = 3
    /\ ver_exit = 1

\* the response of a listing check shows a failed command, output that is no
\* JSON, or a document without the fields the check reads
FailingResponse(name, resp) ==
    \/ resp.returncode # 0
    \/ /\ name # "Namespace"
       /\ \/ ~resp.json
          \/ ~resp.dict
          \/ ~resp.has_items
          \/ \E i \in 1..Len(resp.items) :
                 ~resp.items[i].has_name \/ ~resp.items[i].has_attrs

\* C3: a check whose command fails, whose output does not parse or lacks the
\* expected fields is recorded as failed for its own kind only; the loop goes
\* on to the next check, and the summary is reached with five results, one per
\* kind
C3_FailureIsRecordedAndLoopContinues ==
    /\ Len(results) = Len(outcomes)
    /\ \A i \in 1..Len(results) : results[i][1] = tests[i]
    /\ \A i \in 1..Len(results) : results[i][2] <=> outcomes[i] = "True"
    /\ (Len(results) >= 1 /\ FailingResponse(tests[Len(results)], last_response))
           => ~results[Len(results)][2]
    /\ (ver_pc = "testing" => ENABLED (RunTest \/ Summarize))
    /\ (ver_pc \in {"summarized", "exited"} /\ ValidArgs => Len(results) = 5)

\* the pods check raised on a pod without status.phase, the three checks after
\* it were still run and passed, and the summary was reached
C3_Witness ==
    /\ ver_pc = "summarized"
    /\ outcomes = <<"True", "raised", "True", "True", "True">>
    /\ results[2] = <<"Pods", FALSE>>
    /\ results[5] = <<"Secrets", TRUE>>
    /\ passed = 4

\* C7: the pods check passes only if the query succeeded, at least one pod is
\* listed and every listed pod is in phase Running
C7_PodsPassOnlyWhenRunning ==
    (Len(results) = 2 /\ results[2][2]) =>
        /\ last_response.returncode = 0
        /\ last_response.items # <<>>
        /\ \A i \in 1..Len(last_response.items) : last_response.items[i].phase = "Running"

----------------------------------------------------------------------------
(* _wait_for_mlflow_server: claims *)

\* C4: against a server that never answers the health endpoint with status
\* 200, the poll terminates by raising ConnectionError after max_wait
\* attempts; it never returns success and never loops forever
C4_PollTerminates ==
    (server = "never200") =>
        /\ <>(poll_pc = "raised")
        /\ [](poll_pc # "returned")
        /\ [](poll_pc = "raised" => requests = max_wait /\ poll_i = max_wait)

\* the default ceiling of 60 attempts was exhausted by refusals and 503s
C4_Witness ==
    /\ server = "never200"
    /\ max_wait = DefaultMaxWait
    /\ poll_pc = "raised"
    /\ requests = 60
    /\ warnings \in 1..5

----------------------------------------------------------------------------
(* _load_config: claims *)

\* C10: for a user file that is a mapping overriding some settings, the
\* configuration _load_config returns still holds every default setting the
\* file does not supply, each nested key of data_config, model_config and
\* training_config included, so that train_model finds every setting it reads
C10_DefaultsSupplied ==
    (cfg_pc # "start" /\ config_file.kind = "mapping") =>
        /\ \A name \in DOMAIN default_config :
              /\ name \in DOMAIN trainer_config
              /\ name \in SectionNames =>
                    \A k \in SectionKeys(name) : k \in DOMAIN trainer_config[name].sub
        /\ cfg_pc # "raised"

----------------------------------------------------------------------------
(* The tracking scripts: claims *)

\* a failure was detected: a call raised, or the mount check failed
FailureDetected == raised_at # <<>> \/ (scr = "artifact_main" /\ ~mount_ok)

\* C8: every script exits with status 0 only on full success and with status
\* 1 on any detected failure, in particular when a tracking or artifact call
\* raises inside simple_test, simple_artifact_test or the guarded artifact
\* block of test_mlflow_artifact.py main
C8_ExitStatusReflectsFailure ==
    scr_pc = "exited" => scr_exit = (IF FailureDetected THEN 1 ELSE 0)


----------------------------------------------------------------------------
(* create experiment if absent: claims *)

\* the invocations that have ended
Ended == {k \in 1..Len(exp_history) : exp_history[k].outcome # "running"
                                        /\ (k = Len(exp_history) => exp_pc = "ready")}

\* C11: the create-experiment-if-absent step is idempotent. Over any number
\* of sequential invocations of one script with the tracking server
\* reachable, the server never holds two experiments of the script's name
\* and holds exactly one after the step; an invocation creates the
\* experiment exactly when it found none, so only the first one can; every
\* later invocation reuses the experiment and still starts its run in it.
C11_CreateIfAbsentIdempotent ==
    exp_pc # "idle" =>
    LET name == ExperimentName(exp_script) IN
    /\ CountOf(exp_store, name) <= 1
    /\ \A k \in Ended :
          exp_history[k].up =>
              /\ CountOf(exp_store, name) = 1
              /\ exp_history[k].created = ~exp_history[k].existed
              /\ exp_history[k].outcome = "done"
              /\ exp_history[k].run = name
    /\ \A j, k \in 1..Len(exp_history) :
          j < k /\ exp_history[j].up => ~exp_history[k].created

\* three invocations with the server reachable: the first created the
\* experiment, the second and the third reused it and started their runs
C11_Witness ==
    /\ exp_pc = "ready"
    /\ Len(exp_history) = MaxInvocations
    /\ \A k \in 1..Len(exp_history) :
          exp_history[k].up /\ exp_history[k].run = ExperimentName(exp_script)
    /\ exp_history[1].created
    /\ exp_history[2].existed /\ ~exp_history[2].created

----------------------------------------------------------------------------
(* test_mlflow_artifact.py main, train_voltage_model.py train_model: claims *)

\* the statements of prog the raises of `raised` made the script skip: from
\* the raising statement of an inner try block to the end of that block
Skipped(prog, raised) ==
    {k \in 1..Len(prog) : \E n \in DOMAIN raised :
        /\ prog[raised[n]].guard = "inner"
        /\ raised[n] <= k /\ k < AfterInner(prog, raised[n])}

\* what the statements before statement `upto` log when none of them is
\* undone: one entry per logging call that was not skipped, in order
ExpectedLog(prog, upto, raised) ==
    LET ran == SelectSeq([k \in 1..(upto - 1) |-> k],
                   LAMBDA k : /\ k \notin Skipped(prog, raised)
                              /\ prog[k].op \in {"log_param", "log_metric", "log_artifact",
                                                 "log_dict", "set_tag"})
    IN  [j \in 1..Len(ran) |-> <<prog[ran[j]].op, prog[ran[j]].arg>>]

InnerRaised == \E n \in DOMAIN raised_at : Program(scr)[raised_at[n]].guard = "inner"

\* C12: a failed artifact log does not roll back the started run. Once
\* log_artifact or log_dict has raised inside the guarded block of
\* test_mlflow_artifact.py main or train_voltage_model.py train_model, the
\* server holds exactly what the statements executed so far logged (nothing
\* is withdrawn), the run is not failed by it, and when nothing else raises
\* the script runs through the statements after the block, ends the run as
\* FINISHED and exits 0.
C12_NoRollbackAfterArtifactFailure ==
    scr \in {"artifact_main", "voltage_train_model"} /\ InnerRaised =>
        /\ tracking.logged = ExpectedLog(Program(scr), scr_i, raised_at)
        /\ (\A n \in DOMAIN raised_at : Program(scr)[raised_at[n]].guard = "inner") =>
              /\ tracking.run \in {"RUNNING", "FINISHED"}
              /\ scr_pc = "exited" =>
                    /\ scr_i = Len(Program(scr)) + 1
                    /\ tracking.run = "FINISHED"
                    /\ scr_exit = 0

\* the second log_dict of train_model raised: the run finished with the
\* parameters, the metrics, the first dictionary and the five tags
C12_Witness ==
    /\ scr = "voltage_train_model"
    /\ scr_pc = "exited"
    /\ raised_at = <<15>>
    /\ tracking.run = "FINISHED"
    /\ Len(tracking.logged) = 18
    /\ tracking.logged[18] = <<"set_tag", "data_source">>

----------------------------------------------------------------------------
(* test-deployment.py main: order of the checks and argument errors *)

\* C13: in one verification run the five checks are executed in the fixed
\* order namespace, pods, services, storage, secrets, each exactly once. At
\* every moment the cluster queries issued so far and the results recorded
\* so far are the first n of that order, one query per recorded result
\* whatever the outcomes were, and the summary is reached with all five.
C13_FixedOrderEachOnce ==
    ver_pc # "idle" =>
        /\ Len(queries) <= 5
        /\ queries = SubSeq(<<"namespace", "pods", "svc", "pvc", "secrets">>, 1, Len(queries))
        /\ Len(results) = Len(queries)
        /\ [i \in 1..Len(results) |-> results[i][1]] =
               SubSeq(<<"Namespace", "Pods", "Services", "Storage", "Secrets">>,
                      1, Len(results))
        /\ (ValidArgs /\ ver_pc \in {"summarized", "exited"}) => Len(queries) = 5

\* a run that ended after a check returned False and another one raised: each
\* of the five kinds was queried once
C13_Witness ==
    /\ ver_pc = "exited"
    /\ queries = <<"namespace", "pods", "svc", "pvc", "secrets">>
    /\ outcomes[1] = "False"
    /\ outcomes[2] = "raised"
    /\ outcomes[5] = "True"

\* C18: with a number of positional arguments other than one, or with an
\* environment other than 'dev' and 'prod', main exits with status 1 and
\* none of the five checks has run: no cluster query, no result.
C18_InvalidArgsExitBeforeChecks ==
    (ver_pc \notin {"idle", "start"} /\ ~ValidArgs) =>
        /\ ver_pc = "exited"
        /\ ver_exit = 1
        /\ queries = <<>>
        /\ results = <<>>
        /\ outcomes = <<>>

\* the run with the environment 'staging' has exited
C18_Witness ==
    /\ argv = <<"staging">>
    /\ ver_pc = "exited"
    /\ ver_exit = 1
    /\ queries = <<>>

----------------------------------------------------------------------------
(* deploy.py main: claims *)

\* main has written the manifest of template t for environment env
Generated(env, t) ==
    \E i \in DOMAIN dep_writes : dep_writes[i].env = env /\ dep_writes[i].template = t

\* the configuration of env holds MLFLOW_PATH with a non-empty text
PathSet(env) ==
    /\ MLFLOW_PATH \in DOMAIN dep_configs[env]
    /\ dep_configs[env][MLFLOW_PATH].t = "str"
    /\ dep_configs[env][MLFLOW_PATH].s # <<>>

\* what the claim promises for env: the ingress manifest exactly when the
\* path is set and the template is there, and every base manifest whose
\* template is there
ManifestsAsPromised(env) ==
    /\ Generated(env, ingress_template)
          <=> (PathSet(env) /\ dep_templates[ingress_template].exists)
    /\ \A i \in 1..Len(base_templates) :
          dep_templates[base_templates[i]].exists => Generated(env, base_templates[i])

\* the loop of main has finished with env
EnvDone(env) == dep_pc = "done" \/ (env = "dev" /\ dep_env = "prod")

\* C14 as stated: when main has ended, for each environment the ingress
\* manifest has been generated if and only if its configuration has a
\* present, non-empty MLFLOW_PATH (and the ingress template exists), and the
\* base manifests have been generated whether or not MLFLOW_PATH is set.
C14_AsStated ==
    dep_pc \in {"done", "raised"} =>
        \A env \in {"dev", "prod"} : ManifestsAsPromised(env)

\* C14 amended: the ingress manifest of an environment is never generated
\* unless its MLFLOW_PATH is present and non-empty and the ingress template
\* exists; for every environment main gets through without an exception of
\* process_template, the ingress manifest is generated exactly in that case
\* and every base manifest whose template exists is generated, whatever
\* MLFLOW_PATH is.
C14_IngressIffPathWhenProcessed ==
    dep_pc # "idle" =>
        \A env \in {"dev", "prod"} :
            /\ Generated(env, ingress_template)
                  => (PathSet(env) /\ dep_templates[ingress_template].exists)
            /\ EnvDone(env) => ManifestsAsPromised(env)

\* main ended after generating six manifests for dev, whose MLFLOW_PATH is
\* set, and the five base manifests for prod, whose MLFLOW_PATH is not
C14_Witness ==
    /\ dep_pc = "done"
    /\ PathSet("dev") /\ Generated("dev", ingress_template)
    /\ ~PathSet("prod") /\ ~Generated("prod", ingress_template)
    /\ Len(dep_writes) = 11

\* the text of template t rendered with the configuration of env
Rendered(t, env) == process_template(dep_templates[t].text, dep_configs[env])

\* name is tfile with one "-template" taken out
TemplateRemoved(tfile, name) ==
    \E k \in 0..Len(name) :
        tfile = SubSeq(name, 1, k) \o <<"-", "t", "e", "m", "p", "l", "a", "t", "e">>
                    \o SubSeq(name, k + 1, Len(name))

\* C15: every manifest main writes goes into the generated directory of the
\* environment being processed and is rendered from that environment's
\* configuration (not from the other one's); all writes for dev come before
\* all writes for prod; the output file is named after the template with
\* '-template' removed, and no two writes of one environment go to the
\* same file.
C15_OwnDirectoryOwnConfig ==
    /\ \A i \in DOMAIN dep_writes :
          LET w == dep_writes[i]
              other == IF w.env = "dev" THEN "prod" ELSE "dev"
          IN  /\ w.dir = <<w.env, "generated">>
              /\ Rendered(w.template, w.env).ok
              /\ w.text = Rendered(w.template, w.env).val
              /\ Rendered(w.template, other).ok => w.text # Rendered(w.template, other).val
              /\ TemplateRemoved(w.template, w.name)
    /\ \A i, j \in DOMAIN dep_writes :
          i < j =>
              /\ dep_writes[i].env = "prod" => dep_writes[j].env = "prod"
              /\ dep_writes[i].env = dep_writes[j].env
                    => dep_writes[i].name # dep_writes[j].name

\* both environments have their six manifests
C15_Witness ==
    /\ dep_pc = "done"
    /\ Len(dep_writes) = 12
    /\ dep_writes[6].env = "dev" /\ dep_writes[6].dir = <<"dev", "generated">>
    /\ dep_writes[7].env = "prod" /\ dep_writes[7].dir = <<"prod", "generated">>

----------------------------------------------------------------------------
(* training.py run_multiple_experiments: claims *)

\* C16 as stated: when run_multiple_experiments has ended, each of the two
\* model types it lists (random_forest and logistic_regression) has a
\* completed run with its accuracy logged, the results hold an accuracy for
\* both, and the model type reported as best is one with the highest
\* recorded accuracy.
C16_BothModelsTrainedAndBestReported ==
    trn_pc \in {"done", "raised"} =>
        /\ \A mtype \in {"random_forest", "logistic_regression"} :
              /\ \E i \in DOMAIN trn_runs :
                    /\ trn_runs[i].type = mtype
                    /\ trn_runs[i].status = "FINISHED"
                    /\ trn_runs[i].accuracy >= 0
              /\ \E i \in DOMAIN trn_results : trn_results[i][1] = mtype
        /\ \E i \in DOMAIN trn_results :
              /\ trn_results[i][1] = trn_best
              /\ \A j \in DOMAIN trn_results : trn_results[j][2] <= trn_results[i][2]

----------------------------------------------------------------------------
(* generate-auth.py create_secret_yaml: claims *)

\* C17 as stated: the auth value create_secret_yaml writes is determined by
\* the username and the password, so two calls with the same username and
\* different passwords produce different auth values.
C17_AuthDependsOnPassword ==
    \A i, j \in DOMAIN auth_calls :
        (/\ auth_calls[i].username = auth_calls[j].username
         /\ auth_calls[i].password # auth_calls[j].password)
            => auth_calls[i].auth # auth_calls[j].auth

----------------------------------------------------------------------------
(* _wait_for_mlflow_server and the trainer's start: claims *)

\* C19: with ceiling max_wait = n the poll issues at most n health requests.
\* It returns at the first answer with status 200, issuing no request after
\* it; an answer with another status and a request exception both leave it
\* polling (it sleeps and goes to the next attempt); ConnectionError is
\* raised only when exactly n attempts were made and none was answered 200.
C19_AtMostCeilingRequests ==
    poll_pc # "idle" =>
        /\ requests <= max_wait
        /\ poll_pc = "returned" => last_answer = "200" /\ requests = poll_i + 1
        /\ poll_pc = "sleep" =>
              last_answer \in {"503", "RequestException"} /\ requests = poll_i + 1
        /\ poll_pc = "request" => requests = poll_i /\ last_answer # "200"
        /\ last_answer \in {"503", "RequestException"} => poll_pc # "returned"
        /\ poll_pc = "raised" =>
              requests = max_wait /\ poll_i = max_wait /\ last_answer # "200"

\* the third request of a poll with the default ceiling was answered 200
\* after two unsuccessful attempts, one of them a request exception
C19_Witness ==
    /\ max_wait = DefaultMaxWait
    /\ poll_pc = "returned"
    /\ requests = 3
    /\ warnings = 1
    /\ last_answer = "200"

\* C20: the experiment is set and a run is started only after the health
\* poll returned success. When the poll ends in the connectivity failure, no
\* experiment is set, no run is started, nothing is logged, and main exits
\* with status 1.
C20_NothingBeforeHealthyServer ==
    /\ [](\/ (trainer_experiment = "none" /\ trainer_run = "none" /\ ~trainer_logged)
          \/ poll_pc = "returned")
    /\ [](trainer_run # "none" => trainer_experiment # "none")
    /\ [](poll_pc = "raised" =>
            /\ trainer_experiment = "none" /\ trainer_run = "none" /\ ~trainer_logged
            /\ main_exit \in {-1, 1})
    /\ (poll_pc = "raised" ~> (trainer_pc = "exited" /\ main_exit = 1))

\* the poll gave up and main has exited with status 1
C20_Witness ==
    /\ poll_pc = "raised"
    /\ max_wait = DefaultMaxWait
    /\ trainer_pc = "exited"
    /\ main_exit = 1
    /\ trainer_experiment = "none"
----------------------------------------------------------------------------
(* process_template as deploy.py main calls it: the configuration is only read *)

\* the entries process_template derives
DerivedKeys == {PgKeys[i] \o B64Suffix : i \in 1..Len(PgKeys)}

----------------------------------------------------------------------------
(* generate-auth.py main: claims *)

\* main has carried out the step of that name
HasStep(name) == \E i \in DOMAIN gen_log : gen_log[i].step = name

\* the entry main logged for the step of that name
StepOf(name) == gen_log[CHOOSE i \in DOMAIN gen_log : gen_log[i].step = name]

\* a reply that reads 'y' once blanks around it are dropped and case is
\* ignored: one letter y or Y, and blanks or tabs otherwise
IsYesText(r) ==
    \E i \in DOMAIN r :
        /\ r[i] \in {"y", "Y"}
        /\ \A j \in DOMAIN r \ {i} : r[j] \in {" ", "TAB"}

\* the user was asked and gave a reply
Replied == HasStep("prompt") /\ StepOf("prompt").outcome = "reply"

\* C22: kubectl delete is invoked only for a secret the existence check
\* found, and only after the user's reply, trimmed and lower-cased, is 'y';
\* after any other reply the script has exited with status 1 and neither
\* kubectl delete nor kubectl apply has been invoked.
C22_DeleteOnlyAfterYes ==
    /\ HasStep("delete") =>
          /\ HasStep("exists") /\ StepOf("exists").found
          /\ Replied /\ IsYesText(gen_reply)
    /\ (Replied /\ ~IsYesText(gen_reply)) =>
          /\ gen_pc = "exited" /\ gen_exit = 1
          /\ ~HasStep("delete") /\ ~HasStep("apply")

\* the secret was deleted after a reply that needed trimming and lower-casing
C22_Witness ==
    /\ gen_reply = <<"TAB", "Y", " ">>
    /\ HasStep("delete") /\ StepOf("delete").ok

\* position of a step in the order of main
StepRank(name) ==
    CASE name = "version" -> 1
      [] name = "yaml" -> 2
      [] name = "exists" -> 3
      [] name = "prompt" -> 4
      [] name = "delete" -> 5
      [] name = "apply" -> 6
      [] OTHER -> 7

----------------------------------------------------------------------------
(* deploy.py main: a template that is missing *)

\* the list of templates main builds for env
FilesOf(env) == template_files(dep_configs[env])

\* main is past the i-th template of env
Passed(env, i) ==
    \/ EnvDone(env)
    \/ env = dep_env /\ dep_pc \in {"templates", "raised"} /\ i < dep_k

\* main has printed the warning for template t of env
Warned(env, t) == \E k \in DOMAIN dep_warnings : dep_warnings[k] = <<env, t>>

\* every template of env that is there renders with the configuration of env
AllRender(env) ==
    \A i \in DOMAIN FilesOf(env) :
        dep_templates[FilesOf(env)[i]].exists => Rendered(FilesOf(env)[i], env).ok

\* C24: a template file that does not exist is passed over with a warning
\* and is not a failure: no output is ever written for it; every template
\* main is past was written if it is there and warned about if it is not,
\* also the ones after a missing one and the ones of the following
\* environment; main never stops at a missing template (it stops only at a
\* template that is there and does not render), and when every template that
\* is there renders main does not stop at all, so the run ends with the
\* success report.
C24_MissingTemplateSkipped ==
    dep_pc # "idle" =>
        /\ \A env \in {"dev", "prod"} : \A i \in DOMAIN FilesOf(env) :
              LET t == FilesOf(env)[i]
              IN  /\ ~dep_templates[t].exists => ~Generated(env, t)
                  /\ Warned(env, t) => ~dep_templates[t].exists
                  /\ Passed(env, i) =>
                        IF dep_templates[t].exists THEN Generated(env, t)
                        ELSE Warned(env, t)
        /\ dep_pc = "raised" =>
              /\ dep_templates[dep_files[dep_k]].exists
              /\ ~Rendered(dep_files[dep_k], dep_env).ok
        /\ (AllRender("dev") /\ AllRender("prod")) => dep_pc # "raised"
        /\ dep_pc = "done" => Len(dep_writes) + Len(dep_warnings)
                                 = Len(FilesOf("dev")) + Len(FilesOf("prod"))

\* the pv template is missing: main warned for dev and for prod, wrote the
\* pvc manifest that comes after it for both, and reported success
C24_Witness ==
    /\ dep_pc = "done"
    /\ ~dep_templates[base_templates[3]].exists
    /\ dep_warnings = <<<<"dev", base_templates[3]>>, <<"prod", base_templates[3]>>>>
    /\ Generated("dev", base_templates[4]) /\ Generated("prod", base_templates[4])

----------------------------------------------------------------------------
(* train_model and train_and_save with an unsupported model type: claims *)

\* the model types the function of the script can build
Supported(script) ==
    IF script = "train_voltage_model" THEN {"random_forest", "gradient_boosting"}
    ELSE {"random_forest"}

\* C25: called with a model type it does not support, train_model
\* (train_voltage_model.py) and train_and_save (voltage_training_working.py)
\* fail before any tracking run is started: no tracking call at all is made
\* (no run, no parameter, metric or artifact), the function never gets past
\* building the model, and where it stops there it has raised KeyError or
\* ValueError.
C25_UnsupportedTypeNoRun ==
    (sel_pc # "idle" /\ sel_type \notin Supported(sel_script)) =>
        /\ sel_tracking = <<>>
        /\ sel_pc \in {"called", "prepared", "raised"}
        /\ sel_pc = "raised" => sel_error \in {"KeyError", "ValueError"}

\* train_and_save was called with gradient_boosting, which only the other
\* script builds, and raised ValueError
C25_Witness ==
    /\ sel_script = "voltage_training_working"
    /\ sel_type = "gradient_boosting"
    /\ sel_pc = "raised" /\ sel_error = "ValueError"
    /\ sel_tracking = <<>>

----------------------------------------------------------------------------
(* test_mlflow_artifact.py and test_mlflow_artifact_windows.py main: claims *)

\* main is past the mount verification of lines 84-89
MountVerified == art_pc \notin {"idle", "start", "verify"}

\* C26: mount verification precedes every tracking operation: the tracking
\* URI is set and tracking calls are made only after verify_mount_access
\* succeeded; when the mount path does not exist or cannot be written to
\* (or the test file cannot be written or removed) the script has exited
\* with status 1 without setting the tracking URI or starting a run; and
\* after a successful verify_mount_access its test file is not in the mount
\* path, also when one was left there before.
C26_MountVerifiedBeforeTracking ==
    /\ (art_uri # NoneVal \/ art_ops # <<>>) => (MountVerified /\ art_mount = "ok")
    /\ (MountVerified /\ art_mount # "ok") =>
          /\ art_pc = "exited" /\ art_exit = 1
          /\ art_uri = NoneVal /\ art_ops = <<>>
    /\ (MountVerified /\ art_mount = "ok") => test_file(art_script) \notin art_files

\* a run that got through: the mount was verified, the run was started and
\* finished, and only the artifact file is in the mount path
C26_Witness ==
    /\ art_pc = "exited" /\ art_exit = 0
    /\ art_mount = "ok"
    /\ art_files = {artifact_file(art_script)}
    /\ art_ops[1] = "set_tracking_uri" /\ art_ops[2] = "start_run"

\* username and password are both non-empty texts
BothGiven == /\ art_creds.username.t = "str" /\ art_creds.username.s # <<>>
             /\ art_creds.password.t = "str" /\ art_creds.password.s # <<>>

\* the URI handed to the client carries the user information user:password
CredentialsEmbedded ==
    LET netloc == urlparse(art_uri.s).netloc
        userinfo == art_creds.username.s \o <<":">> \o art_creds.password.s \o <<"@">>
    IN  startswith(netloc, userinfo)

\* C27: once the tracking URI is set, it carries credentials if and only if
\* a username and a password are both non-empty; when MLFLOW_TRACKING_URI
\* was set in the environment the credentials are the values of
\* MLFLOW_USERNAME and MLFLOW_PASSWORD, never the built-in ones; and host
\* and path of the URI handed to the tracking client are host and path of
\* the configured URI.
C27_CredentialsAndHostKept ==
    art_uri # NoneVal =>
        /\ BothGiven <=> CredentialsEmbedded
        /\ ~BothGiven => art_uri.s = art_creds.uri
        /\ art_creds.uri # DEFAULT_TRACKING_URI =>
              /\ art_creds.username \in Usernames
              /\ art_creds.password \in EnvPasswords
        /\ hostname(urlparse(art_uri.s).netloc) = hostname(urlparse(art_creds.uri).netloc)
        /\ urlparse(art_uri.s).path = urlparse(art_creds.uri).path

----------------------------------------------------------------------------
(* temporary files staged for log_artifact: claims *)

\* the log_artifact calls made so far
ArtifactCalls == {i \in DOMAIN stg_logged : stg_logged[i].op = "log_artifact"}

C29_TempFilesRemoved ==
    stg_pc = "finished" => \A n \in TmpNames : ~stg_files[n].exists

====
